---- MODULE Spec2Model ----
(***************************************************************************)
(* SpoonOS-Agents: the ReAct control loop (agents/react_agent.py) and the  *)
(* fixed-stage analysis workflow (agents/graph_agent.py).                  *)
(*                                                                         *)
(* Text is modelled as a sequence of tokens.  The literal markers the code *)
(* searches for ("Final Answer:", "Action:", "Action Input:", "Thought:")  *)
(* are single tokens; none of them is a substring of another, so the       *)
(* substring operations of the code (in, split, startswith, replace,       *)
(* strip) act on tokens exactly as they act on characters.                 *)
(***************************************************************************)
EXTENDS Integers, Sequences, FiniteSets, TLC

\* ------------------------------------------------------------------ bounds
\* Largest iteration budget an agent is constructed with.
MaxIterations == 2
\* Largest 24h change the price tool reports, in tenths of a percent.
MaxChange == 60
\* Largest number of articles the news tool returns.
MaxArticles == 4
\* Largest limit CryptoNewsTool.run is called with.
MaxLimit == 6
\* Largest max_results TavilySearchTool.run is called with.
MaxResults == 3
\* Largest number of results in a body of the search API.
MaxUpstreamResults == 3

\* ------------------------------------------------------------------ text
FinalMarker == "Final Answer:"
ActionMarker == "Action:"
ActionInputMarker == "Action Input:"
ThoughtMarker == "Thought:"
ObservationMarker == "Observation:"
NL == "\n"
SP == " "

Whitespace == {NL, SP}

\* Optional[...] of Python: None is the empty sequence, a value x is <<x>>.
None == <<>>
Some(x) == <<x>>

\* `tok in text`
Contains(text, tok) == \E i \in 1..Len(text) : text[i] = tok

\* Index of the first occurrence of tok in text (0 when absent).
IndexOf(text, tok) ==
    IF Contains(text, tok)
    THEN CHOOSE i \in 1..Len(text) :
            text[i] = tok /\ \A j \in 1..(i - 1) : text[j] # tok
    ELSE 0

\* str.split(sep): the pieces between ALL occurrences of sep, in order.
RECURSIVE PySplit(_, _)
PySplit(text, sep) ==
    IF ~Contains(text, sep)
    THEN <<text>>
    ELSE LET i == IndexOf(text, sep)
         IN  <<SubSeq(text, 1, i - 1)>> \o PySplit(SubSeq(text, i + 1, Len(text)), sep)

\* str.strip(): drop leading and trailing whitespace.
RECURSIVE PyLStrip(_)
PyLStrip(text) ==
    IF Len(text) > 0 /\ text[1] \in Whitespace THEN PyLStrip(Tail(text)) ELSE text

RECURSIVE PyRStrip(_)
PyRStrip(text) ==
    IF Len(text) > 0 /\ text[Len(text)] \in Whitespace
    THEN PyRStrip(SubSeq(text, 1, Len(text) - 1))
    ELSE text

PyStrip(text) == PyRStrip(PyLStrip(text))

\* str.replace(tok, ""): remove every occurrence of tok.
RECURSIVE PyRemove(_, _)
PyRemove(text, tok) ==
    IF text = <<>> THEN <<>>
    ELSE IF Head(text) = tok THEN PyRemove(Tail(text), tok)
    ELSE <<Head(text)>> \o PyRemove(Tail(text), tok)

\* line.startswith(tok)
StartsWith(line, tok) == Len(line) > 0 /\ line[1] = tok

\* "\n".join(lines)
RECURSIVE JoinLines(_)
JoinLines(lines) ==
    IF lines = <<>> THEN <<>>
    ELSE IF Len(lines) = 1 THEN lines[1]
    ELSE lines[1] \o <<NL>> \o JoinLines(Tail(lines))

\* ------------------------------------------------------------------ JSON
\* A decoded JSON value: its Python type and its items (key, value text).
NoneValue == [type |-> "None", items |-> {}]
DictValue(items) == [type |-> "dict", items |-> items]
ListValue(items) == [type |-> "list", items |-> items]

\* The JSON documents the scripted LLM writes, with what json.loads returns.
JsonDocs ==
    ( "{}"                  :> DictValue({}) ) @@
    ( "{\"query\": \"btc\"}" :> DictValue({<<"query", <<"btc">>>>}) ) @@
    ( "{\"symbol\": \"BTC\"}" :> DictValue({<<"symbol", <<"BTC">>>>}) ) @@
    ( "[1]"                 :> ListValue({<<"0", <<"1">>>>}) )

\* json.loads(text): ok = FALSE stands for json.JSONDecodeError.
JsonLoads(text) ==
    IF Len(text) = 1 /\ text[1] \in DOMAIN JsonDocs
    THEN [ok |-> TRUE, value |-> JsonDocs[text[1]]]
    ELSE [ok |-> FALSE, value |-> NoneValue]

\* The fallback mapping {"query": input_text}.
QueryWrap(text) == DictValue({<<"query", text>>})

\* json.dumps(value)
JsonDumps(value) ==
    IF value.type = "None" THEN <<"null">>
    ELSE IF \E d \in DOMAIN JsonDocs : JsonDocs[d] = value
    THEN <<CHOOSE d \in DOMAIN JsonDocs : JsonDocs[d] = value>>
    ELSE LET kv == CHOOSE p \in value.items : TRUE
         IN  <<"{\"query\": \"">> \o kv[2] \o <<"\"}">>

\* Python truthiness of an Optional[str] and of a decoded value.
TruthyText(opt) == opt # None /\ opt[1] # <<>>
TruthyValue(value) == value.type # "None" /\ value.items # {}

\* ------------------------------------------------------------------ tools
\* CryptoReActAgent._init_tools: the registered tool names.
ToolNames == {"search", "get_crypto_price", "get_crypto_news"}

\* Parameters each tool's run() requires and accepts.
ToolRequired ==
    ( "search" :> {"query"} ) @@
    ( "get_crypto_price" :> {"symbol"} ) @@
    ( "get_crypto_news" :> {"symbol"} )

ToolAccepted ==
    ( "search" :> {"query", "max_results"} ) @@
    ( "get_crypto_price" :> {"symbol"} ) @@
    ( "get_crypto_news" :> {"symbol", "limit"} )

\* What the body of a tool's run() does once it is entered: it returns a
\* result (text = str(result)) or raises (text = str(e)).
ToolOutcomes ==
    { [ok |-> TRUE, text |-> <<"tool result">>],
      [ok |-> FALSE, text |-> <<"boom">>] }

\* `action in self.tools`
IsRegistered(action) == Len(action) = 1 /\ action[1] \in ToolNames

\* tool.run(**action_input) binds its arguments: a value that is no mapping,
\* an unexpected keyword or a missing required one raises TypeError.
Keys(value) == {kv[1] : kv \in value.items}

\* ArgumentsBind of tools that take any keywords.
ArgumentsBindAnyKeywords(action, value) == value.type = "dict"

ArgumentsBind(action, value) ==
    /\ value.type = "dict"
    /\ Keys(value) \subseteq ToolAccepted[action[1]]
    /\ ToolRequired[action[1]] \subseteq Keys(value)

ExecutionError(action, message) ==
    <<"Error executing ">> \o action \o <<": ">> \o message

\* ExecuteTool returning str(e) alone when the tool raises.
ExecuteToolBareMessage(action, action_input, outcome) ==
    IF ~IsRegistered(action)
    THEN <<"Error: Tool '">> \o action \o <<"' ", "not found", ".">>
    ELSE IF ~ArgumentsBind(action, action_input)
    THEN <<"TypeError">>
    ELSE outcome.text

\* CryptoReActAgent._execute_tool
ExecuteTool(action, action_input, outcome) ==
    IF ~IsRegistered(action)
    THEN <<"Error: Tool '">> \o action \o <<"' ", "not found", ".">>
    ELSE IF ~ArgumentsBind(action, action_input)
    THEN ExecutionError(action, <<"TypeError">>)
    ELSE IF outcome.ok
    THEN outcome.text
    ELSE ExecutionError(action, outcome.text)

\* What _execute_tool went through: the tool was not found, its arguments did
\* not bind, its body returned, or its body raised (with str(e)).
NoToolEvent == [kind |-> "none", message |-> <<>>]
ToolEvent(action, action_input, outcome) ==
    IF ~IsRegistered(action) THEN [kind |-> "not_found", message |-> <<>>]
    ELSE IF ~ArgumentsBind(action, action_input)
    THEN [kind |-> "raised", message |-> <<"TypeError">>]
    ELSE IF outcome.ok THEN [kind |-> "returned", message |-> <<>>]
    ELSE [kind |-> "raised", message |-> outcome.text]

\* ------------------------------------------------------------------ parsing
\* One line of CryptoReActAgent._parse_action's loop, applied to the pair
\* (action, action_input) found so far.
ParseLine(line, found) ==
    IF StartsWith(line, ActionMarker)
    THEN [found EXCEPT !.action = Some(PyStrip(PySplit(line, ActionMarker)[2]))]
    ELSE IF StartsWith(line, ActionInputMarker)
    THEN LET input_text == PyStrip(PySplit(line, ActionInputMarker)[2])
             decoded == JsonLoads(input_text)
         IN  [found EXCEPT !.action_input =
                 IF decoded.ok THEN decoded.value ELSE QueryWrap(input_text)]
    ELSE found

RECURSIVE ParseLines(_, _)
ParseLines(lines, found) ==
    IF lines = <<>> THEN found
    ELSE ParseLines(Tail(lines), ParseLine(Head(lines), found))

\* CryptoReActAgent._parse_action
ParseAction(text) ==
    ParseLines(PySplit(PyStrip(text), NL),
               [action |-> None, action_input |-> NoneValue])

\* response.split("Action:")[0].replace("Thought:", "").strip()
ParseThought(response) ==
    PyStrip(PyRemove(PySplit(response, ActionMarker)[1], ThoughtMarker))

\* IsFinal looking for the marker at the start of the response only.
IsFinalAtStart(response) == StartsWith(response, FinalMarker)

\* `"Final Answer:" in response`
IsFinal(response) == Contains(response, FinalMarker)

\* response.split("Final Answer:")[1].strip()
FinalAnswer(response) == PyStrip(PySplit(response, FinalMarker)[2])

\* `if action and action_input:`
ShouldExecute(action, action_input) ==
    TruthyText(action) /\ TruthyValue(action_input)

\* The AgentStep one non-final response produces.
MakeStep(response, outcome) ==
    LET parsed == ParseAction(response)
    IN  [thought |-> ParseThought(response),
         action |-> parsed.action,
         action_input |-> parsed.action_input,
         observation |->
            IF ShouldExecute(parsed.action, parsed.action_input)
            THEN Some(ExecuteTool(parsed.action[1], parsed.action_input, outcome))
            ELSE None]

\* CryptoReActAgent._format_history
FormatStep(step) ==
    <<<<ThoughtMarker, SP>> \o step.thought>>
    \o (IF TruthyText(step.action)
        THEN << <<ActionMarker, SP>> \o step.action[1],
                <<ActionInputMarker, SP>> \o JsonDumps(step.action_input) >>
        ELSE <<>>)
    \o (IF TruthyText(step.observation)
        THEN << <<ObservationMarker, SP>> \o step.observation[1] >>
        ELSE <<>>)

RECURSIVE FormatSteps(_)
FormatSteps(steps) ==
    IF steps = <<>> THEN <<>> ELSE FormatStep(Head(steps)) \o FormatSteps(Tail(steps))

FormatHistory(steps) == JoinLines(FormatSteps(steps))

\* REACT_PROMPT_TEMPLATE.format(...): the two parts that vary.
BuildPrompt(q, steps) == [question |-> q, history |-> FormatHistory(steps)]

MaxIterationsReached == <<"Max iterations reached.">>

\* ------------------------------------------------------------------ script
\* The texts the scripted LLM answers with: a thought, then optionally an
\* action line, an action-input line and a final-answer part.
ThoughtParts == { <<ThoughtMarker, SP, "think">> }

ActionNames == {"foo", "search", "get_crypto_price", "get_crypto_news"}
ActionParts == { <<>> } \cup { <<NL, ActionMarker, SP, n>> : n \in ActionNames }

InputTexts == DOMAIN JsonDocs \cup {"btc"}
InputParts ==
    { <<>> }
    \cup { <<NL, ActionInputMarker, SP, t>> : t \in InputTexts }
    \cup { <<NL, ActionInputMarker, SP, "btc", SP, ActionInputMarker, SP, "eth">> }

FinalParts ==
    { <<>>,
      <<NL, FinalMarker, SP, "42", NL>>,
      <<NL, FinalMarker, SP, "42", SP, FinalMarker, SP, "43">> }

Responses ==
    { t \o a \o i \o f :
        t \in ThoughtParts, a \in ActionParts, i \in InputParts, f \in FinalParts }

Questions == {"What is the price of BTC?"}

\* ------------------------------------------------------------------ state
VARIABLES
    max_iterations,   \* CryptoReActAgent.max_iterations
    history,          \* CryptoReActAgent.history: sequence of AgentStep
    status,           \* where run() stands: IDLE, ITERATING, TERMINAL_ANSWER,
                      \* EXHAUSTED (returned the fixed message), RAISED
    iteration,        \* the loop variable of run()
    question,         \* the argument of the current run()
    prompt,           \* the prompt last built (None before the first)
    response,         \* the text the LLM last returned (None before the first)
    result,           \* the value run() returned (None while it has not)
    llm_calls,        \* _call_llm invocations of the current run()
    tool_dispatches,  \* _execute_tool invocations of the current run()
    run_steps,        \* the AgentSteps the current run() has created, in order
    tool_event,       \* what the tool call of the last pass of the loop did
    stale,            \* history held steps of an earlier run when run() was entered
    wf_graph,         \* CryptoAnalysisGraph.graph: "unbuilt" before __init__,
                      \* then "compiled" or "none" (LangGraph unavailable)
    wf_symbol,        \* the symbol argument of the current run()
    wf_raised,        \* the nodes whose try block raised in the current run()
    wf_news,          \* what news_tool.run returned in the current run() (None
                      \* before the sentiment node, and when it raised)
    wf_state,         \* the AgentState threaded through the workflow
    wf_stage,         \* the node CryptoAnalysisGraph.run() executes next
    wf_trace,         \* the nodes the current run() has executed, in order
    wf_result,        \* the AnalysisResult run() returned (None before)
    tool_call,        \* the last direct call of a data tool's run(): its
                      \* arguments and what the upstream API did (None before)
    tool_return,      \* what that call did: the mapping returned, or the
                      \* exception that left run()
    tool_env,         \* what the environment held when the tools were
                      \* constructed (None before)
    tool_prev,        \* the call before tool_call and what it did, when both
                      \* are calls of the same notification tool or node
    shared_history,   \* CryptoReActAgent.history of an agent whose run() is
                      \* called from two threads
    threads           \* the locals of run() in each of the two threads

react_vars ==
    <<max_iterations, history, status, iteration, question, prompt, response,
      result, llm_calls, tool_dispatches, run_steps, tool_event, stale>>

graph_vars ==
    <<wf_graph, wf_symbol, wf_raised, wf_news, wf_state, wf_stage, wf_trace,
      wf_result>>

tool_vars == <<tool_call, tool_return, tool_env, tool_prev>>

thread_vars == <<shared_history, threads>>

vars == <<react_vars, graph_vars, tool_vars, thread_vars>>

\* ------------------------------------------------------------------ ReAct
\* CryptoReActAgent.__init__: any integer budget is accepted.
ReactInit ==
    /\ max_iterations \in -1..MaxIterations
    /\ history = <<>>
    /\ status = "IDLE"
    /\ iteration = 0
    /\ question = ""
    /\ prompt = None
    /\ response = None
    /\ result = None
    /\ llm_calls = 0
    /\ tool_dispatches = 0
    /\ run_steps = <<>>
    /\ tool_event = NoToolEvent
    /\ stale = FALSE

\* HistoryAtRunStart without the assignment: the old history is kept.
HistoryAtRunStartKept(old) == old

\* `self.history = []` at the head of run().
HistoryAtRunStart(old) == <<>>

\* LoopHasNext one pass short, and one pass long.
LoopStopsEarly(i, budget) == i < budget - 1
LoopHasNextInclusive(i, budget) == i <= budget

\* `for iteration in range(self.max_iterations)`: is there a next pass?
LoopHasNext(i, budget) == i < budget

\* run(question), up to the head of the loop.
RunStart(q) ==
    /\ status # "ITERATING"
    /\ history' = HistoryAtRunStart(history)
    /\ status' = "ITERATING"
    /\ iteration' = 0
    /\ question' = q
    /\ prompt' = None
    /\ response' = None
    /\ result' = None
    /\ llm_calls' = 0
    /\ tool_dispatches' = 0
    /\ run_steps' = <<>>
    /\ tool_event' = NoToolEvent
    /\ stale' = (history # <<>>)
    /\ UNCHANGED max_iterations
    /\ UNCHANGED <<graph_vars, tool_vars, thread_vars>>

\* One pass of the loop in which the LLM answers with `resp`; `outcome` is
\* what the tool body does if the pass reaches it.
RunIteration(resp, outcome) ==
    /\ status = "ITERATING"
    /\ LoopHasNext(iteration, max_iterations)
    /\ prompt' = Some(BuildPrompt(question, history))
    /\ response' = Some(resp)
    /\ llm_calls' = llm_calls + 1
    /\ IF IsFinal(resp)
       THEN /\ result' = Some(FinalAnswer(resp))
            /\ status' = "TERMINAL_ANSWER"
            /\ tool_event' = NoToolEvent
            /\ UNCHANGED <<history, iteration, tool_dispatches, run_steps>>
       ELSE LET step == MakeStep(resp, outcome)
                parsed == ParseAction(resp)
                executes == ShouldExecute(parsed.action, parsed.action_input)
            IN  /\ history' = Append(history, step)
                /\ run_steps' = Append(run_steps, step)
                /\ iteration' = iteration + 1
                /\ tool_dispatches' =
                      IF executes THEN tool_dispatches + 1 ELSE tool_dispatches
                /\ tool_event' =
                      IF executes
                      THEN ToolEvent(parsed.action[1], parsed.action_input, outcome)
                      ELSE NoToolEvent
                /\ UNCHANGED <<result, status>>
    /\ UNCHANGED <<max_iterations, question, stale>>
    /\ UNCHANGED <<graph_vars, tool_vars, thread_vars>>

\* RunLlmRaises with the failure caught as the parsing errors are: a step
\* "Reasoning..." is appended before the run ends.
RunLlmRaisesAppends ==
    /\ status = "ITERATING"
    /\ LoopHasNext(iteration, max_iterations)
    /\ prompt' = Some(BuildPrompt(question, history))
    /\ llm_calls' = llm_calls + 1
    /\ status' = "RAISED"
    /\ tool_event' = NoToolEvent
    /\ history' = Append(history, [thought |-> <<"Reasoning...">>,
                                   action |-> None,
                                   action_input |-> NoneValue,
                                   observation |-> None])
    /\ UNCHANGED <<max_iterations, iteration, question, response,
                   result, tool_dispatches, run_steps, stale>>
    /\ UNCHANGED <<graph_vars, tool_vars, thread_vars>>

\* One pass of the loop in which _call_llm raises: run() propagates it.
RunLlmRaises ==
    /\ status = "ITERATING"
    /\ LoopHasNext(iteration, max_iterations)
    /\ prompt' = Some(BuildPrompt(question, history))
    /\ llm_calls' = llm_calls + 1
    /\ status' = "RAISED"
    /\ tool_event' = NoToolEvent
    /\ UNCHANGED <<max_iterations, history, iteration, question, response,
                   result, tool_dispatches, run_steps, stale>>
    /\ UNCHANGED <<graph_vars, tool_vars, thread_vars>>

\* The loop is over: `return "Max iterations reached."`.
RunReturnMax ==
    /\ status = "ITERATING"
    /\ ~LoopHasNext(iteration, max_iterations)
    /\ result' = Some(MaxIterationsReached)
    /\ status' = "EXHAUSTED"
    /\ UNCHANGED <<max_iterations, history, iteration, question, prompt,
                   response, llm_calls, tool_dispatches, run_steps, tool_event,
                   stale>>
    /\ UNCHANGED <<graph_vars, tool_vars, thread_vars>>

\* CryptoReActAgent.reset, called between runs.
Reset ==
    /\ status # "ITERATING"
    /\ history' = <<>>
    /\ status' = "IDLE"
    /\ UNCHANGED <<max_iterations, iteration, question, prompt, response,
                   result, llm_calls, tool_dispatches, run_steps, tool_event,
                   stale>>
    /\ UNCHANGED <<graph_vars, tool_vars, thread_vars>>

ReactNext ==
    \/ \E q \in Questions : RunStart(q)
    \/ \E resp \in Responses, outcome \in ToolOutcomes : RunIteration(resp, outcome)
    \/ RunLlmRaises
    \/ RunReturnMax
    \/ Reset

\* ------------------------------------------------------------------ mappings
\* A Python dict is a function on its keys; {} is the function on no key.
EmptyDict == [k \in {} |-> ""]

\* mapping.get(key, default)
Get(mapping, key, default) ==
    IF key \in DOMAIN mapping THEN mapping[key] ELSE default

\* A numeric field holds a number n, written Number(n), or Python's None
\* (a JSON null of the upstream API).  24h changes are counted in tenths of
\* a percent and volumes in thousands of USD.
Number(n) == <<n>>
PyNone == <<>>
IsNumber(x) == x # PyNone

\* ------------------------------------------------------------------ signal
\* The thresholds of technical_analysis_node: 5 %, 0 %, -5 % and 1e9 USD.
StrongUpChange == 50
UpChange == 0
DownChange == -50
HighVolume == 1000000

\* `if price_change_24h > 5 ... elif > 0 ... elif > -5 ... else`
Trend(change) ==
    IF change > StrongUpChange THEN "Strong Uptrend"
    ELSE IF change > UpChange THEN "Uptrend"
    ELSE IF change > DownChange THEN "Downtrend"
    ELSE "Strong Downtrend"

\* Signal with the BUY threshold made inclusive.
SignalInclusiveBuy(change) ==
    IF change >= StrongUpChange THEN "BUY"
    ELSE IF change > UpChange THEN "HOLD"
    ELSE IF change > DownChange THEN "HOLD"
    ELSE "SELL"

Signal(change) ==
    IF change > StrongUpChange THEN "BUY"
    ELSE IF change > UpChange THEN "HOLD"
    ELSE IF change > DownChange THEN "HOLD"
    ELSE "SELL"

\* VolumeStatus with the threshold made inclusive.
VolumeStatusInclusive(volume) == IF volume >= HighVolume THEN "High" ELSE "Normal"

\* `"High" if volume_24h > 1e9 else "Normal"`
VolumeStatus(volume) == IF volume > HighVolume THEN "High" ELSE "Normal"

\* Indicators keeping what was computed before the volume comparison raised.
IndicatorsPartial(price_data) ==
    LET price_change_24h == Get(price_data, "price_change_percentage_24h", Number(0))
        volume_24h == Get(price_data, "total_volume", Number(0))
    IN  IF ~IsNumber(price_change_24h) THEN EmptyDict
        ELSE IF ~IsNumber(volume_24h)
        THEN [trend |-> Trend(price_change_24h[1]),
              signal |-> Signal(price_change_24h[1])]
        ELSE [trend |-> Trend(price_change_24h[1]),
              signal |-> Signal(price_change_24h[1]),
              volume_status |-> VolumeStatus(volume_24h[1])]

\* Indicators with a signal that also looks at the current price.
IndicatorsByPrice(price_data) ==
    LET price_change_24h == Get(price_data, "price_change_percentage_24h", Number(0))
        volume_24h == Get(price_data, "total_volume", Number(0))
    IN  IF IsNumber(price_change_24h) /\ IsNumber(volume_24h)
        THEN [trend |-> Trend(price_change_24h[1]),
              signal |-> IF Get(price_data, "current_price", Number(0)) = Number(50000)
                         THEN Signal(price_change_24h[1]) ELSE "HOLD",
              volume_status |-> VolumeStatus(volume_24h[1])]
        ELSE EmptyDict

\* The body of technical_analysis_node's try block: the indicators, or {}
\* when a comparison raises TypeError on a value that is not a number.
Indicators(price_data) ==
    LET price_change_24h == Get(price_data, "price_change_percentage_24h", Number(0))
        volume_24h == Get(price_data, "total_volume", Number(0))
    IN  IF IsNumber(price_change_24h) /\ IsNumber(volume_24h)
        THEN [trend |-> Trend(price_change_24h[1]),
              signal |-> Signal(price_change_24h[1]),
              volume_status |-> VolumeStatus(volume_24h[1])]
        ELSE EmptyDict

\* The comparisons of the try block raise TypeError on a None.
IndicatorsRaise(price_data) ==
    \/ ~IsNumber(Get(price_data, "price_change_percentage_24h", Number(0)))
    \/ ~IsNumber(Get(price_data, "total_volume", Number(0)))

\* ------------------------------------------------------------------ data tools
\* A decoded JSON value of the upstream API: null, a number, an object (a
\* function on its keys) or an array.
JNull == [type |-> "null"]
JNumber(n) == [type |-> "number", value |-> n]
JObject(fields) == [type |-> "object", fields |-> fields]
JArray == [type |-> "array"]

\* dict.get(key, default) on a decoded object.
JsonGet(obj, key, default) ==
    IF key \in DOMAIN obj.fields THEN obj.fields[key] ELSE default

\* The Python value of a decoded number or null.
PyValue(j) == IF j.type = "number" THEN Number(j.value) ELSE PyNone

\* The symbols the tools are called with, and str.upper() / str.lower().
ToolSymbols == {"BTC", "btc", "Eth", "xyz"}
Upper ==
    ( "BTC" :> "BTC" ) @@ ( "btc" :> "BTC" ) @@ ( "Eth" :> "ETH" ) @@ ( "ETH" :> "ETH" ) @@
    ( "xyz" :> "XYZ" )
Lower ==
    ( "BTC" :> "btc" ) @@ ( "btc" :> "btc" ) @@ ( "Eth" :> "eth" ) @@ ( "ETH" :> "eth" ) @@
    ( "xyz" :> "xyz" )

\* CryptoPriceTool._get_coin_id
SymbolMap ==
    ( "BTC" :> "bitcoin" ) @@ ( "ETH" :> "ethereum" ) @@ ( "BNB" :> "binancecoin" ) @@
    ( "SOL" :> "solana" ) @@ ( "ADA" :> "cardano" ) @@ ( "XRP" :> "ripple" ) @@
    ( "DOT" :> "polkadot" ) @@ ( "DOGE" :> "dogecoin" ) @@ ( "AVAX" :> "avalanche-2" ) @@
    ( "MATIC" :> "matic-network" ) @@ ( "LINK" :> "chainlink" ) @@ ( "UNI" :> "uniswap" ) @@
    ( "ATOM" :> "cosmos" ) @@ ( "LTC" :> "litecoin" ) @@ ( "BCH" :> "bitcoin-cash" )

GetCoinId(symbol) == Get(SymbolMap, Upper[symbol], Lower[symbol])

\* The keys of market_data read through their "usd" entry, and directly.
UsdKeys == {"current_price", "market_cap", "total_volume", "high_24h", "low_24h", "ath", "atl"}
FlatKeys == {"price_change_24h", "price_change_percentage_24h", "market_cap_rank"}

\* The number the upstream API reports under each key of market_data.
LiveNumber ==
    ( "current_price" :> 11 ) @@ ( "market_cap" :> 12 ) @@ ( "total_volume" :> 13 ) @@
    ( "high_24h" :> 14 ) @@ ( "low_24h" :> 15 ) @@ ( "ath" :> 16 ) @@ ( "atl" :> 17 ) @@
    ( "price_change_24h" :> 18 ) @@ ( "price_change_percentage_24h" :> 19 ) @@
    ( "market_cap_rank" :> 20 )

\* The shapes an entry of market_data comes in: a complete one, and the
\* partial ones (null, an object without "usd", a null "usd", a null number).
CompleteEntry(key) ==
    IF key \in UsdKeys THEN JObject([k \in {"usd"} |-> JNumber(LiveNumber[key])])
    ELSE JNumber(LiveNumber[key])

PartialEntries(key) ==
    IF key \in UsdKeys
    THEN {JNull, JObject(EmptyDict), JObject([k \in {"usd"} |-> JNull])}
    ELSE {JNull}

\* market_data objects: complete, with one key missing, or with one
\* partial entry.
MarketDatas ==
    { JObject([k \in UsdKeys \cup FlatKeys |-> CompleteEntry(k)]) }
    \cup { JObject([k \in (UsdKeys \cup FlatKeys) \ {missing} |-> CompleteEntry(k)]) :
             missing \in UsdKeys \cup FlatKeys }
    \cup UNION { { JObject([k \in UsdKeys \cup FlatKeys |->
                       IF k = key THEN entry ELSE CompleteEntry(k)]) :
                   entry \in PartialEntries(key) } :
                 key \in UsdKeys \cup FlatKeys }

\* The bodies response.json() decodes to.
Payloads ==
    { JArray, JObject(EmptyDict),
      JObject([k \in {"name", "market_data"} |->
                 IF k = "name" THEN "Bitcoin" ELSE JNull]) }
    \cup { JObject([k \in {"name", "market_data"} |->
                      IF k = "name" THEN "Bitcoin" ELSE market_data]) :
             market_data \in MarketDatas }

\* What the upstream call does: requests.get or raise_for_status raises a
\* RequestException (no connection, timeout, HTTP error status); or
\* response.json() raises on a body that is not JSON, with the exception
\* class of the installed requests (a RequestException since requests 2.27,
\* a plain ValueError before); or the body decodes to a payload.
Upstreams ==
    { [kind |-> "request_exception", decode_error |-> "", data |-> JNull] }
    \cup { [kind |-> "invalid_json", decode_error |-> e, data |-> JNull] :
             e \in {"RequestException", "ValueError"} }
    \cup { [kind |-> "json", decode_error |-> "", data |-> d] : d \in Payloads }

\* What a call of run() does: it returns a mapping, or an exception leaves it.
Returned(value) == [raised |-> FALSE, error |-> "", value |-> value]
Raised(error) == [raised |-> TRUE, error |-> error, value |-> EmptyDict]

\* A mock payload whose 24h change is 6.2 % instead of 1.2 %.
MockPriceDataStrongUp(symbol) ==
    [symbol |-> Upper[symbol],
     name |-> symbol,
     current_price |-> Number(5000000),
     market_cap |-> Number(1000000000),
     total_volume |-> Number(50000000),
     price_change_24h |-> Number(50000),
     price_change_percentage_24h |-> Number(62),
     market_cap_rank |-> Number(1),
     high_24h |-> Number(5100000),
     low_24h |-> Number(4900000),
     ath |-> Number(6900000),
     atl |-> Number(10000),
     _note |-> "Mock data - API error occurred"]

\* The mock payload of CryptoPriceTool.run.  Prices are counted in cents,
\* the market cap and the volume in thousands of USD, and the 24h change in
\* tenths of a percent.
MockPriceData(symbol) ==
    LET btc == Upper[symbol] = "BTC"
    IN  [symbol |-> Upper[symbol],
         name |-> symbol,
         current_price |-> Number(IF btc THEN 5000000 ELSE 300000),
         market_cap |-> Number(1000000000),
         total_volume |-> Number(50000000),
         price_change_24h |-> Number(50000),
         price_change_percentage_24h |-> Number(12),
         market_cap_rank |-> Number(1),
         high_24h |-> Number(IF btc THEN 5100000 ELSE 310000),
         low_24h |-> Number(IF btc THEN 4900000 ELSE 290000),
         ath |-> Number(IF btc THEN 6900000 ELSE 480000),
         atl |-> Number(IF btc THEN 10000 ELSE 50),
         _note |-> "Mock data - API error occurred"]

\* market_data.get(key, {}).get("usd", 0) raises AttributeError when
\* market_data, or the entry under the key, is not an object.
UsdEntry(market_data, key) == JsonGet(market_data, key, JObject(EmptyDict))

ExtractionRaises(data) ==
    \/ data.type # "object"
    \/ JsonGet(data, "market_data", JObject(EmptyDict)).type # "object"
    \/ \E key \in UsdKeys :
          UsdEntry(JsonGet(data, "market_data", JObject(EmptyDict)), key).type # "object"

\* The `result` mapping built from a payload whose entries can be read.
LivePriceData(symbol, data) ==
    LET market_data == JsonGet(data, "market_data", JObject(EmptyDict))
    IN  [k \in {"symbol", "name"} \cup UsdKeys \cup FlatKeys |->
            CASE k = "symbol" -> Upper[symbol]
              [] k = "name" -> JsonGet(data, "name", "")
              [] k \in UsdKeys ->
                    PyValue(JsonGet(UsdEntry(market_data, k), "usd", JNumber(0)))
              [] k \in FlatKeys -> PyValue(JsonGet(market_data, k, JNumber(0)))]

\* CryptoPriceTool.run: only requests.exceptions.RequestException is
\* caught.  The f-string of logger.info formats current_price with ",.2f",
\* which raises TypeError on None.
PriceToolRun(symbol, upstream) ==
    IF upstream.kind = "request_exception"
    THEN Returned(MockPriceData(symbol))
    ELSE IF upstream.kind = "invalid_json"
    THEN IF upstream.decode_error = "RequestException"
         THEN Returned(MockPriceData(symbol))
         ELSE Raised("ValueError")
    ELSE IF ExtractionRaises(upstream.data)
    THEN Raised("AttributeError")
    ELSE LET price_data == LivePriceData(symbol, upstream.data)
         IN  IF IsNumber(price_data["current_price"])
             THEN Returned(price_data)
             ELSE Raised("TypeError")

\* The titles CryptoNewsTool.run cycles through, as token sequences.
NewsTemplates(symbol) ==
    << <<symbol, " reaches new milestone as institutional adoption grows">>,
       <<"Analysts predict bullish trend for ", symbol, " in coming weeks">>,
       <<"Major exchange lists ", symbol, " trading pairs">>,
       <<symbol, " network upgrade scheduled for next month">>,
       <<"Whale activity detected in ", symbol, " markets">> >>

\* The article made for index i of range(limit).
NewsArticle(symbol, i) ==
    [title |-> NewsTemplates(symbol)[(i % Len(NewsTemplates(symbol))) + 1],
     source |-> "CryptoNews",
     url |-> <<"https://example.com/news/", i>>,
     published_at |-> "2024-01-15",
     sentiment |-> "neutral"]

\* NewsToolRun making one article per template at most.
NewsToolRunOnePerTemplate(symbol, limit) ==
    LET n == IF limit > Len(NewsTemplates(symbol)) THEN Len(NewsTemplates(symbol))
             ELSE IF limit > 0 THEN limit ELSE 0
        articles == [j \in 1..n |-> NewsArticle(symbol, j - 1)]
    IN  Returned([symbol |-> Upper[symbol],
                  article_count |-> Len(articles),
                  articles |-> articles])

\* CryptoNewsTool.run: one article for each i of range(limit).
NewsToolRun(symbol, limit) ==
    LET articles == [j \in 1..(IF limit > 0 THEN limit ELSE 0) |->
                        NewsArticle(symbol, j - 1)]
    IN  Returned([symbol |-> Upper[symbol],
                  article_count |-> Len(articles),
                  articles |-> articles])

\* ------------------------------------------------------------------ workflow
Symbols == {"BTC", "ETH"}

Stages ==
    <<"collect_data", "technical_analysis", "sentiment_analysis",
      "generate_decision", "notification">>

\* What price_tool.run(symbol=...) does: it raises, or returns a mapping
\* whose change and volume fields are numbers, None or absent; among the
\* mappings are those CryptoPriceTool.run makes of each upstream behaviour.
Changes == {Number(n) : n \in -MaxChange..MaxChange} \cup {PyNone}
Volumes == {Number(n) : n \in {0, HighVolume - 1, HighVolume, HighVolume + 1, 50000000}}
              \cup {PyNone}

PriceMapping(symbol, keys, change, volume) ==
    [k \in {"symbol", "current_price"} \cup keys |->
        CASE k = "symbol" -> symbol
          [] k = "current_price" -> Number(50000)
          [] k = "price_change_percentage_24h" -> change
          [] k = "total_volume" -> volume]

PriceOutcomes(symbol) ==
    { [ok |-> FALSE, value |-> EmptyDict] }
    \cup { [ok |-> ~PriceToolRun(symbol, upstream).raised,
            value |-> PriceToolRun(symbol, upstream).value] : upstream \in Upstreams }
    \cup { [ok |-> TRUE, value |-> PriceMapping(symbol, keys, c, v)] :
             keys \in {{"price_change_percentage_24h", "total_volume"}},
             c \in Changes, v \in Volumes }
    \cup { [ok |-> TRUE, value |-> PriceMapping(symbol, {"total_volume"}, PyNone, v)] :
             v \in Volumes }
    \cup { [ok |-> TRUE, value |-> PriceMapping(symbol, {"price_change_percentage_24h"}, c, PyNone)] :
             c \in Changes }

\* What news_tool.run(symbol=...) does: it raises, or returns a mapping
\* with n articles (the second one may lack its title), or a mapping
\* without the articles list.
Article(i) == [title |-> <<"headline", i>>, source |-> "CryptoNews"]
ArticleUntitled(i) == [source |-> "CryptoNews"]
NewsOutcomes ==
    { [ok |-> FALSE, value |-> EmptyDict] }
    \cup { [ok |-> TRUE,
            value |-> [articles |-> [i \in 1..n |->
                         IF i \in untitled THEN ArticleUntitled(i) ELSE Article(i)]]] :
             n \in 0..MaxArticles, untitled \in {{}, {2}} }
    \cup { [ok |-> TRUE, value |-> [article_count |-> 0]] }

\* What the LLM call of the decision node does: it raises or returns text.
DecisionOutcomes ==
    { [ok |-> FALSE, text |-> ""],
      [ok |-> TRUE, text |-> "{\"recommendation\": \"BUY\", \"confidence\": 85}"],
      [ok |-> TRUE, text |-> "I would sell."] }

\* AnalysisResult.confidence, in hundredths.
Confidence == 75

\* The confidence, in hundredths, an LLM answer reports in its JSON text.
ReportedConfidence ==
    ( "{\"recommendation\": \"BUY\", \"confidence\": 85}" :> 85 )

\* langgraph's END, the node name that ends a compiled graph.
END == "__end__"

\* _build_graph: the entry point and the edges of the compiled graph.
EntryPoint == "collect_data"

\* Edges with the sentiment node left out of the chain.
EdgesSkipSentiment ==
    ( "collect_data" :> "technical_analysis" ) @@
    ( "technical_analysis" :> "generate_decision" ) @@
    ( "sentiment_analysis" :> "generate_decision" ) @@
    ( "generate_decision" :> "notification" ) @@
    ( "notification" :> END )

Edges ==
    ( "collect_data" :> "technical_analysis" ) @@
    ( "technical_analysis" :> "sentiment_analysis" ) @@
    ( "sentiment_analysis" :> "generate_decision" ) @@
    ( "generate_decision" :> "notification" ) @@
    ( "notification" :> END )

\* The fallback of run(): the nodes are called one after another in the
\* order of Stages.
SequentialNext(node) ==
    LET i == CHOOSE j \in 1..Len(Stages) : Stages[j] = node
    IN  IF i < Len(Stages) THEN Stages[i + 1] ELSE END

\* The node run() executes first, and the one it executes after `node`.
FirstNode(graph) == IF graph = "compiled" THEN EntryPoint ELSE Stages[1]
NextNode(graph, node) ==
    IF graph = "compiled" THEN Edges[node] ELSE SequentialNext(node)

GraphInit ==
    /\ wf_graph = "unbuilt"
    /\ wf_symbol = ""
    /\ wf_raised = {}
    /\ wf_news = None
    /\ wf_state = EmptyDict
    /\ wf_stage = "unbuilt"
    /\ wf_trace = <<>>
    /\ wf_result = None

\* CryptoAnalysisGraph.__init__: self.graph = self._build_graph(), which is
\* None when LangGraph could not be imported.
Construct(langgraph_available) ==
    /\ wf_stage = "unbuilt"
    /\ wf_graph' = IF langgraph_available THEN "compiled" ELSE "none"
    /\ wf_stage' = "idle"
    /\ UNCHANGED <<wf_symbol, wf_raised, wf_news, wf_state, wf_trace, wf_result>>
    /\ UNCHANGED <<react_vars, tool_vars, thread_vars>>

\* CryptoAnalysisGraph.run, up to the first node: the initial state.
GraphRunStart(symbol) ==
    /\ wf_stage \in {"idle", "returned"}
    /\ wf_state' = [symbol |-> symbol,
                    action |-> "analyze",
                    price_data |-> EmptyDict,
                    technical_indicators |-> EmptyDict,
                    sentiment_data |-> EmptyDict,
                    analysis_result |-> "",
                    decision |-> "",
                    messages |-> <<>>]
    /\ wf_symbol' = symbol
    /\ wf_raised' = {}
    /\ wf_news' = None
    /\ wf_stage' = FirstNode(wf_graph)
    /\ wf_trace' = <<>>
    /\ wf_result' = None
    /\ UNCHANGED wf_graph
    /\ UNCHANGED <<react_vars, tool_vars, thread_vars>>

\* CollectedPriceData keeping a record of the failure in the field.
CollectedPriceDataError(outcome) ==
    IF outcome.ok THEN outcome.value ELSE [error |-> "Error collecting data"]

\* What collect_data_node stores in price_data: the tool's mapping, or {}
\* when the tool raised.
CollectedPriceData(outcome) ==
    IF outcome.ok THEN outcome.value ELSE EmptyDict

\* collect_data_node
CollectData ==
    /\ wf_stage = "collect_data"
    /\ \E outcome \in PriceOutcomes(wf_state.symbol) :
          /\ wf_state' = [wf_state EXCEPT !.price_data = CollectedPriceData(outcome)]
          /\ wf_raised' = IF outcome.ok THEN wf_raised
                          ELSE wf_raised \cup {"collect_data"}
    /\ wf_stage' = NextNode(wf_graph, "collect_data")
    /\ wf_trace' = Append(wf_trace, "collect_data")
    /\ UNCHANGED <<wf_graph, wf_symbol, wf_news, wf_result>>
    /\ UNCHANGED <<react_vars, tool_vars, thread_vars>>

\* technical_analysis_node
TechnicalAnalysis ==
    /\ wf_stage = "technical_analysis"
    /\ wf_state' = [wf_state EXCEPT !.technical_indicators =
                       Indicators(wf_state.price_data)]
    /\ wf_raised' = IF IndicatorsRaise(wf_state.price_data)
                    THEN wf_raised \cup {"technical_analysis"} ELSE wf_raised
    /\ wf_stage' = NextNode(wf_graph, "technical_analysis")
    /\ wf_trace' = Append(wf_trace, "technical_analysis")
    /\ UNCHANGED <<wf_graph, wf_symbol, wf_news, wf_result>>
    /\ UNCHANGED <<react_vars, tool_vars, thread_vars>>

\* Headlines without the [:3] slice: the titles of all the articles.
HeadlinesAll(articles) ==
    [i \in 1..Len(articles) |-> Get(articles[i], "title", <<>>)]

\* news_data.get("articles", [])[:3], the titles
Headlines(articles) ==
    [i \in 1..(IF Len(articles) < 3 THEN Len(articles) ELSE 3) |->
        Get(articles[i], "title", <<>>)]

\* sentiment_analysis_node
SentimentAnalysis(outcome) ==
    /\ wf_stage = "sentiment_analysis"
    /\ wf_state' = [wf_state EXCEPT !.sentiment_data =
          IF outcome.ok
          THEN LET articles == Get(outcome.value, "articles", <<>>)
               IN  [news_count |-> Len(articles),
                    overall_sentiment |-> "Neutral",
                    news_headlines |-> Headlines(articles)]
          ELSE EmptyDict]
    /\ wf_raised' = IF outcome.ok THEN wf_raised
                    ELSE wf_raised \cup {"sentiment_analysis"}
    /\ wf_news' = IF outcome.ok THEN Some(outcome.value) ELSE None
    /\ wf_stage' = NextNode(wf_graph, "sentiment_analysis")
    /\ wf_trace' = Append(wf_trace, "sentiment_analysis")
    /\ UNCHANGED <<wf_graph, wf_symbol, wf_result>>
    /\ UNCHANGED <<react_vars, tool_vars, thread_vars>>

\* GenerateDecision without the handler: an exception of the LLM call
\* leaves the node and run().
GenerateDecisionPropagates(outcome) ==
    /\ wf_stage = "generate_decision"
    /\ wf_state' = [wf_state EXCEPT !.decision =
                       IF outcome.ok THEN outcome.text ELSE @]
    /\ wf_raised' = IF outcome.ok THEN wf_raised
                    ELSE wf_raised \cup {"generate_decision"}
    /\ wf_stage' = IF outcome.ok THEN NextNode(wf_graph, "generate_decision")
                   ELSE "aborted"
    /\ wf_trace' = Append(wf_trace, "generate_decision")
    /\ UNCHANGED <<wf_graph, wf_symbol, wf_news, wf_result>>
    /\ UNCHANGED <<react_vars, tool_vars, thread_vars>>

\* generate_decision_node
GenerateDecision(outcome) ==
    /\ wf_stage = "generate_decision"
    /\ wf_state' = [wf_state EXCEPT !.decision =
                       IF outcome.ok THEN outcome.text
                       ELSE "Error generating decision"]
    /\ wf_raised' = IF outcome.ok THEN wf_raised
                    ELSE wf_raised \cup {"generate_decision"}
    /\ wf_stage' = NextNode(wf_graph, "generate_decision")
    /\ wf_trace' = Append(wf_trace, "generate_decision")
    /\ UNCHANGED <<wf_graph, wf_symbol, wf_news, wf_result>>
    /\ UNCHANGED <<react_vars, tool_vars, thread_vars>>

\* Notification recording in the state that the message was sent.
NotificationRecords(raises) ==
    /\ wf_stage = "notification"
    /\ wf_state' = [wf_state EXCEPT !.analysis_result =
                       IF raises THEN @ ELSE "Notification sent"]
    /\ wf_raised' = IF raises THEN wf_raised \cup {"notification"} ELSE wf_raised
    /\ wf_stage' = NextNode(wf_graph, "notification")
    /\ wf_trace' = Append(wf_trace, "notification")
    /\ UNCHANGED <<wf_graph, wf_symbol, wf_news, wf_result>>
    /\ UNCHANGED <<react_vars, tool_vars, thread_vars>>

\* notification_node: whether notification_tool.run raises or not, the
\* state is returned as it came.
Notification(raises) ==
    /\ wf_stage = "notification"
    /\ wf_raised' = IF raises THEN wf_raised \cup {"notification"} ELSE wf_raised
    /\ wf_stage' = NextNode(wf_graph, "notification")
    /\ wf_trace' = Append(wf_trace, "notification")
    /\ UNCHANGED <<wf_graph, wf_symbol, wf_news, wf_state, wf_result>>
    /\ UNCHANGED <<react_vars, tool_vars, thread_vars>>

\* MakeResult taking the confidence the LLM reported in its JSON answer.
MakeResultLlmConfidence(symbol, final_state) ==
    [symbol |-> symbol,
     recommendation |-> Get(final_state.technical_indicators, "signal", "HOLD"),
     confidence |-> IF final_state.decision \in DOMAIN ReportedConfidence
                    THEN ReportedConfidence[final_state.decision]
                    ELSE Confidence,
     reasoning |-> final_state.decision,
     data |-> [price_data |-> final_state.price_data,
               technical_indicators |-> final_state.technical_indicators,
               sentiment_data |-> final_state.sentiment_data]]

\* MakeResult following the LLM when its decision says to sell.
MakeResultLlmRecommendation(symbol, final_state) ==
    [symbol |-> symbol,
     recommendation |-> IF final_state.decision = "I would sell." THEN "SELL"
                        ELSE Get(final_state.technical_indicators, "signal", "HOLD"),
     confidence |-> Confidence,
     reasoning |-> final_state.decision,
     data |-> [price_data |-> final_state.price_data,
               technical_indicators |-> final_state.technical_indicators,
               sentiment_data |-> final_state.sentiment_data]]

\* AnalysisResult(symbol=symbol, recommendation=..., confidence=0.75, ...)
MakeResult(symbol, final_state) ==
    [symbol |-> symbol,
     recommendation |-> Get(final_state.technical_indicators, "signal", "HOLD"),
     confidence |-> Confidence,
     reasoning |-> final_state.decision,
     data |-> [price_data |-> final_state.price_data,
               technical_indicators |-> final_state.technical_indicators,
               sentiment_data |-> final_state.sentiment_data]]

\* The end of CryptoAnalysisGraph.run: the AnalysisResult.
GraphReturn ==
    /\ wf_stage = END
    /\ wf_result' = Some(MakeResult(wf_symbol, wf_state))
    /\ wf_stage' = "returned"
    /\ UNCHANGED <<wf_graph, wf_symbol, wf_raised, wf_news, wf_state, wf_trace>>
    /\ UNCHANGED <<react_vars, tool_vars, thread_vars>>

GraphNext ==
    \/ \E available \in BOOLEAN : Construct(available)
    \/ \E symbol \in Symbols : GraphRunStart(symbol)
    \/ CollectData
    \/ TechnicalAnalysis
    \/ \E outcome \in NewsOutcomes : SentimentAnalysis(outcome)
    \/ \E outcome \in DecisionOutcomes : GenerateDecision(outcome)
    \/ \E raises \in BOOLEAN : Notification(raises)
    \/ GraphReturn

\* ------------------------------------------------------------------ search tool
\* A decoded JSON array with its elements.
JArrayOf(items) == [type |-> "array", items |-> items]

\* What the environment held when the tools were constructed: whether
\* TAVILY_API_KEY, SLACK_WEBHOOK_URL and DISCORD_WEBHOOK_URL were non-empty.
Envs == [tavily_api_key : BOOLEAN, slack_webhook : BOOLEAN, discord_webhook : BOOLEAN]

\* A record of "results" as the search API sends it: complete, or with a
\* title only.  Scores are counted in tenths.
UpstreamResult(i, complete) ==
    IF complete
    THEN JObject([k \in {"title", "url", "content", "score"} |->
                    CASE k = "title" -> <<"Live result ", i>>
                      [] k = "url" -> <<"https://live.example/", i>>
                      [] k = "content" -> <<"Live content ", i>>
                      [] k = "score" -> JNumber(10 - i)])
    ELSE JObject([k \in {"title"} |-> <<"Live result ", i>>])

\* The bodies response.json() of the search API decodes to: an array, an
\* empty object, an object whose "results" is null or holds a null, and
\* objects with an answer and any number of results.
SearchPayloads ==
    { JArray, JObject(EmptyDict),
      JObject([k \in {"answer", "results"} |->
                 IF k = "answer" THEN "live answer" ELSE JNull]),
      JObject([k \in {"results"} |-> JArrayOf(<<JNull>>)]) }
    \cup { JObject([k \in {"answer", "results"} |->
                      IF k = "answer" THEN "live answer"
                      ELSE JArrayOf([i \in 1..n |-> UpstreamResult(i, complete)])]) :
             n \in 0..MaxUpstreamResults, complete \in BOOLEAN }

\* What the upstream call of the search tool does: requests.post or
\* raise_for_status raises, response.json() raises, or the body decodes.
SearchUpstreams ==
    { [kind |-> "request_exception", data |-> JNull],
      [kind |-> "invalid_json", data |-> JNull] }
    \cup { [kind |-> "json", data |-> d] : d \in SearchPayloads }

\* data.get(...) raises AttributeError on a body that is not an object,
\* the comprehension raises TypeError on "results" that is not iterable,
\* and result.get(...) raises AttributeError on a result that is no object.
SearchExtractionRaises(data) ==
    \/ data.type # "object"
    \/ LET results == JsonGet(data, "results", JArrayOf(<<>>))
       IN  \/ results.type # "array"
           \/ \E i \in DOMAIN results.items : results.items[i].type # "object"

\* The `results` mapping built from a live body: one record for each
\* result of the body.
LiveSearchResults(query, data) ==
    LET items == JsonGet(data, "results", JArrayOf(<<>>)).items
    IN  [query |-> query,
         answer |-> JsonGet(data, "answer", ""),
         results |-> [i \in DOMAIN items |->
                        [title |-> JsonGet(items[i], "title", ""),
                         url |-> JsonGet(items[i], "url", ""),
                         content |-> JsonGet(items[i], "content", ""),
                         score |-> PyValue(JsonGet(items[i], "score", JNumber(0)))]]]

\* TavilySearchTool._mock_search: one record for each i of
\* range(max_results), with score 0.9 - i * 0.1.
MockSearch(query, max_results) ==
    [query |-> query,
     answer |-> <<"This is a simulated answer for: ", query,
                  ". The Tavily API key is not configured.">>,
     results |-> [j \in 1..(IF max_results > 0 THEN max_results ELSE 0) |->
                    [title |-> <<"Result ", j, " for ", query>>,
                     url |-> <<"https://example.com/result-", j>>,
                     content |-> <<"This is mock content for result ", j,
                                   " about ", query, ".">>,
                     score |-> Number(9 - (j - 1))]]]

\* SearchToolRun letting the failure of the upstream call leave run().
SearchToolRunPropagates(env, query, max_results, upstream) ==
    IF ~env.tavily_api_key
    THEN Returned(MockSearch(query, max_results))
    ELSE IF upstream.kind # "json"
    THEN Raised("RequestException")
    ELSE IF SearchExtractionRaises(upstream.data)
    THEN Raised("AttributeError")
    ELSE Returned(LiveSearchResults(query, upstream.data))

\* TavilySearchTool.run: the mock without an API key, and whenever
\* anything in the try block raises.
SearchToolRun(env, query, max_results, upstream) ==
    IF ~env.tavily_api_key
    THEN Returned(MockSearch(query, max_results))
    ELSE IF upstream.kind # "json"
    THEN Returned(MockSearch(query, max_results))
    ELSE IF SearchExtractionRaises(upstream.data)
    THEN Returned(MockSearch(query, max_results))
    ELSE Returned(LiveSearchResults(query, upstream.data))

\* ------------------------------------------------------------ notification tool
Channels == {"console", "slack", "discord", "email"}

\* What a dispatch did: the mapping it returned, and whether requests.post
\* was called.
Dispatched(value, posted) ==
    [raised |-> FALSE, error |-> "", value |-> value, posted |-> posted]

\* NotificationTool._send_console
SendConsole(message) ==
    Dispatched([success |-> TRUE, channel |-> "console", message |-> message], FALSE)

\* SendSlack posting to the webhook whether or not it is configured.
SendSlackPosts(env, message, http) ==
    IF http = "ok" /\ env.slack_webhook
    THEN Dispatched([success |-> TRUE, channel |-> "slack", message |-> message], TRUE)
    ELSE Dispatched([success |-> FALSE, channel |-> "slack", error |-> "HTTPError"], TRUE)

\* NotificationTool._send_slack
SendSlack(env, message, http) ==
    IF ~env.slack_webhook
    THEN Dispatched([success |-> FALSE, channel |-> "slack",
                     error |-> "Webhook not configured"], FALSE)
    ELSE IF http = "ok"
    THEN Dispatched([success |-> TRUE, channel |-> "slack", message |-> message], TRUE)
    ELSE Dispatched([success |-> FALSE, channel |-> "slack", error |-> "HTTPError"], TRUE)

\* NotificationTool._send_discord
SendDiscord(env, message, http) ==
    IF ~env.discord_webhook
    THEN Dispatched([success |-> FALSE, channel |-> "discord",
                     error |-> "Webhook not configured"], FALSE)
    ELSE IF http = "ok"
    THEN Dispatched([success |-> TRUE, channel |-> "discord", message |-> message], TRUE)
    ELSE Dispatched([success |-> FALSE, channel |-> "discord", error |-> "HTTPError"], TRUE)

\* NotificationToolRun without the default for unknown channels.
NotificationToolRunStrict(env, message, channel, http) ==
    CASE channel = "console" -> SendConsole(message)
      [] channel = "slack" -> SendSlack(env, message, http)
      [] channel = "discord" -> SendDiscord(env, message, http)
      [] OTHER -> [raised |-> TRUE, error |-> "ValueError", value |-> EmptyDict,
                   posted |-> FALSE]

\* NotificationTool.run: an unknown channel goes to the console.
NotificationToolRun(env, message, channel, http) ==
    CASE channel = "console" -> SendConsole(message)
      [] channel = "slack" -> SendSlack(env, message, http)
      [] channel = "discord" -> SendDiscord(env, message, http)
      [] OTHER -> SendConsole(message)

\* What the previous call did, kept when it was a call of the same
\* component on the same instances.
PreviousCall(tool) ==
    IF tool_call # None /\ tool_call[1].tool = tool
    THEN Some([call |-> tool_call[1], return |-> tool_return[1]])
    ELSE None

ToolsInit ==
    /\ tool_call = None
    /\ tool_return = None
    /\ tool_env = None
    /\ tool_prev = None

\* The tools are constructed: each __init__ reads its environment variables.
ToolsConstruct(env) ==
    /\ tool_env' = Some(env)
    /\ tool_call' = None
    /\ tool_return' = None
    /\ tool_prev' = None
    /\ UNCHANGED <<react_vars, graph_vars, thread_vars>>

\* A direct call of CryptoPriceTool.run(symbol) while the upstream API
\* behaves as `upstream`.
PriceToolCall(symbol, upstream) ==
    /\ tool_call' = Some([tool |-> "get_crypto_price",
                          symbol |-> symbol,
                          coin_id |-> GetCoinId(symbol),
                          upstream |-> upstream])
    /\ tool_return' = Some(PriceToolRun(symbol, upstream))
    /\ tool_prev' = None
    /\ UNCHANGED <<tool_env, react_vars, graph_vars, thread_vars>>

\* A direct call of CryptoNewsTool.run(symbol, limit).
NewsToolCall(symbol, limit) ==
    /\ tool_call' = Some([tool |-> "get_crypto_news",
                          symbol |-> symbol,
                          limit |-> limit])
    /\ tool_return' = Some(NewsToolRun(symbol, limit))
    /\ tool_prev' = None
    /\ UNCHANGED <<tool_env, react_vars, graph_vars, thread_vars>>

\* A direct call of TavilySearchTool.run(query, max_results).
SearchToolCall(query, max_results, upstream) ==
    /\ tool_env # None
    /\ tool_call' = Some([tool |-> "search",
                          query |-> query,
                          max_results |-> max_results,
                          upstream |-> upstream])
    /\ tool_return' = Some(SearchToolRun(tool_env[1], query, max_results, upstream))
    /\ tool_prev' = None
    /\ UNCHANGED <<tool_env, react_vars, graph_vars, thread_vars>>

\* A direct call of NotificationTool.run(message, channel).
NotificationToolCall(message, channel, http) ==
    /\ tool_env # None
    /\ tool_call' = Some([tool |-> "send_notification",
                          message |-> message,
                          channel |-> channel,
                          http |-> http])
    /\ tool_return' = Some(NotificationToolRun(tool_env[1], message, channel, http))
    /\ tool_prev' = PreviousCall("send_notification")
    /\ UNCHANGED <<tool_env, react_vars, graph_vars, thread_vars>>

ToolsNext ==
    \/ \E symbol \in ToolSymbols, upstream \in Upstreams : PriceToolCall(symbol, upstream)
    \/ \E symbol \in ToolSymbols, limit \in -2..MaxLimit : NewsToolCall(symbol, limit)
    \/ \E env \in Envs : ToolsConstruct(env)
    \/ \E query \in {"bitcoin etf", "eth"}, max_results \in -1..MaxResults,
          upstream \in SearchUpstreams :
          SearchToolCall(query, max_results, upstream)
    \/ \E message \in {"BTC alert", "ETH alert"}, channel \in Channels,
          http \in {"ok", "http_error"} :
          NotificationToolCall(message, channel, http)

\* ------------------------------------------------------------------ components
\* The provider names the agents are constructed with.
Providers == {"openai", "anthropic", "gemini", "mistral"}

\* CryptoReActAgent._init_llm: a client for "openai" and "gemini", and
\* ValueError for every other name.
ReactInitLlm(provider) ==
    IF provider = "openai"
    THEN Returned([llm_provider |-> provider, llm_client |-> "OpenAI"])
    ELSE IF provider = "gemini"
    THEN Returned([llm_provider |-> provider, llm_client |-> "GenerativeModel"])
    ELSE Raised("ValueError")

\* CryptoAnalysisGraph._init_llm: a client for the three names, and no
\* llm_client attribute (and no exception) for every other name.
GraphInitLlm(provider) ==
    IF provider = "openai"
    THEN Returned([llm_provider |-> provider, llm_client |-> "OpenAI"])
    ELSE IF provider = "anthropic"
    THEN Returned([llm_provider |-> provider, llm_client |-> "Anthropic"])
    ELSE IF provider = "gemini"
    THEN Returned([llm_provider |-> provider, llm_client |-> "GenerativeModel"])
    ELSE Returned([llm_provider |-> provider])

\* The constructor of an agent, as far as the provider goes.
AgentInit(agent, provider) ==
    IF agent = "CryptoReActAgent" THEN ReactInitLlm(provider) ELSE GraphInitLlm(provider)

\* An agent is constructed with a provider name.
AgentConstructCall(agent, provider) ==
    /\ tool_call' = Some([tool |-> "construct", agent |-> agent, provider |-> provider])
    /\ tool_return' = Some(AgentInit(agent, provider))
    /\ tool_prev' = None
    /\ UNCHANGED <<tool_env, react_vars, graph_vars, thread_vars>>

\* The price data technical_analysis_node is called on: the change at and
\* next to each threshold, the volume at and above the threshold, either of
\* them None or absent, under two different prices; and no data at all.
IndicatorChanges ==
    { Number(n) : n \in {DownChange - 1, DownChange, UpChange, UpChange + 1,
                          StrongUpChange, StrongUpChange + 1} } \cup {PyNone}
IndicatorVolumes == { Number(HighVolume), Number(HighVolume + 1), PyNone }

WithPrice(price_data, price) ==
    [price_data EXCEPT !["current_price"] = Number(price)]

IndicatorInputs ==
    {EmptyDict}
    \cup { WithPrice(PriceMapping("BTC", {"price_change_percentage_24h", "total_volume"}, c, v), p) :
             c \in IndicatorChanges, v \in IndicatorVolumes, p \in {50000, 1} }
    \cup { WithPrice(PriceMapping("BTC", {"total_volume"}, PyNone, v), p) :
             v \in IndicatorVolumes, p \in {50000, 1} }
    \cup { WithPrice(PriceMapping("BTC", {"price_change_percentage_24h"}, c, PyNone), p) :
             c \in IndicatorChanges, p \in {50000, 1} }

\* A direct call of technical_analysis_node on a state holding price_data:
\* what it leaves in technical_indicators.
TechnicalAnalysisCall(price_data) ==
    /\ tool_call' = Some([tool |-> "technical_analysis", price_data |-> price_data])
    /\ tool_return' = Some(Returned(Indicators(price_data)))
    /\ tool_prev' = PreviousCall("technical_analysis")
    /\ UNCHANGED <<tool_env, react_vars, graph_vars, thread_vars>>

ComponentsNext ==
    \/ \E agent \in {"CryptoReActAgent", "CryptoAnalysisGraph"}, provider \in Providers :
          AgentConstructCall(agent, provider)
    \/ \E price_data \in IndicatorInputs : TechnicalAnalysisCall(price_data)

\* ------------------------------------------------------------------ threads
\* Two threads call run() of one CryptoReActAgent.  Each has its own
\* question, loop variable and return value; self.history is the agent's.
Threads == {"t1", "t2"}

ThreadQuestions ==
    ( "t1" :> "What is the price of BTC?" ) @@ ( "t2" :> "Should I buy ETH?" )

\* The texts the scripted LLM answers the threads with: a thought, a thought
\* with a search, and a final answer.
ThreadResponses ==
    { <<ThoughtMarker, SP, "think">>,
      <<ThoughtMarker, SP, "think", NL, ActionMarker, SP, "search",
        NL, ActionInputMarker, SP, "btc">>,
      <<ThoughtMarker, SP, "think", NL, FinalMarker, SP, "42", NL>> }

\* The locals of a thread that is not in run().
ThreadIdle ==
    [status |-> "IDLE", iteration |-> 0, question |-> "", prompt |-> None,
     run_steps |-> <<>>, result |-> None]

ThreadsInit ==
    /\ shared_history = <<>>
    /\ threads = [t \in Threads |-> ThreadIdle]

\* run(question) in thread t, up to the head of the loop.
ThreadRunStart(t) ==
    /\ threads[t].status # "ITERATING"
    /\ shared_history' = HistoryAtRunStart(shared_history)
    /\ threads' = [threads EXCEPT ![t] =
                      [status |-> "ITERATING", iteration |-> 0,
                       question |-> ThreadQuestions[t], prompt |-> None,
                       run_steps |-> <<>>, result |-> None]]
    /\ UNCHANGED <<react_vars, graph_vars, tool_vars>>

\* One pass of the loop in thread t.
ThreadRunIteration(t, resp, outcome) ==
    /\ threads[t].status = "ITERATING"
    /\ LoopHasNext(threads[t].iteration, max_iterations)
    /\ LET built == Some(BuildPrompt(threads[t].question, shared_history))
       IN  IF IsFinal(resp)
           THEN /\ threads' = [threads EXCEPT ![t].prompt = built,
                                              ![t].result = Some(FinalAnswer(resp)),
                                              ![t].status = "TERMINAL_ANSWER"]
                /\ UNCHANGED shared_history
           ELSE LET step == MakeStep(resp, outcome)
                IN  /\ shared_history' = Append(shared_history, step)
                    /\ threads' = [threads EXCEPT
                                      ![t].prompt = built,
                                      ![t].run_steps = Append(@, step),
                                      ![t].iteration = @ + 1]
    /\ UNCHANGED <<react_vars, graph_vars, tool_vars>>

\* One pass of the loop in thread t in which _call_llm raises.
ThreadRunLlmRaises(t) ==
    /\ threads[t].status = "ITERATING"
    /\ LoopHasNext(threads[t].iteration, max_iterations)
    /\ threads' = [threads EXCEPT
                      ![t].prompt = Some(BuildPrompt(threads[t].question, shared_history)),
                      ![t].status = "RAISED"]
    /\ UNCHANGED shared_history
    /\ UNCHANGED <<react_vars, graph_vars, tool_vars>>

\* The loop of thread t is over.
ThreadRunReturnMax(t) ==
    /\ threads[t].status = "ITERATING"
    /\ ~LoopHasNext(threads[t].iteration, max_iterations)
    /\ threads' = [threads EXCEPT ![t].result = Some(MaxIterationsReached),
                                  ![t].status = "EXHAUSTED"]
    /\ UNCHANGED shared_history
    /\ UNCHANGED <<react_vars, graph_vars, tool_vars>>

ThreadsNext ==
    \/ \E t \in Threads : ThreadRunStart(t)
    \/ \E t \in Threads, resp \in ThreadResponses, outcome \in ToolOutcomes :
          ThreadRunIteration(t, resp, outcome)
    \/ \E t \in Threads : ThreadRunLlmRaises(t)
    \/ \E t \in Threads : ThreadRunReturnMax(t)

\* ------------------------------------------------------------------ specs
Init == ReactInit /\ GraphInit /\ ToolsInit /\ ThreadsInit

\* The ReAct agent: any sequence of run() and reset() calls.
Spec == Init /\ [][ReactNext]_vars

\* The analysis workflow: any sequence of run() calls.
GraphSpecInit == Init /\ max_iterations = MaxIterations

GraphSpec == GraphSpecInit /\ [][GraphNext]_vars

\* The data tools: any sequence of direct calls of their run().
ToolSpecInit == Init /\ max_iterations = MaxIterations

ToolSpec == ToolSpecInit /\ [][ToolsNext]_vars

\* One ReAct agent whose run() is called from two threads, interleaved pass
\* by pass.
ThreadSpecInit == Init /\ max_iterations = MaxIterations

ThreadSpec == ThreadSpecInit /\ [][ThreadsNext]_vars

\* The agents' constructors and the indicator derivation, called directly
\* in any order.
ComponentSpecInit == Init /\ max_iterations = MaxIterations

ComponentSpec == ComponentSpecInit /\ [][ComponentsNext]_vars

\* ------------------------------------------------------------------ claims
\* Units of the workflow's numbers: p percent in tenths of a percent, and
\* d USD in thousands of USD.
Percent(p) == p * 10
USD(d) == d \div 1000

\* The technical-analysis node has run in the current workflow run.
TechnicalAnalysisDone ==
    wf_stage \in {"sentiment_analysis", "generate_decision", "notification",
                  END, "returned"}

\* The change and the volume the node reads are numbers or absent.
FieldUsable(key) ==
    key \in DOMAIN wf_state.price_data => IsNumber(wf_state.price_data[key])

\* The change v and the volume the node works with (an absent field is 0).
ChangeFed ==
    IF "price_change_percentage_24h" \in DOMAIN wf_state.price_data
    THEN wf_state.price_data["price_change_percentage_24h"][1] ELSE 0

VolumeFed ==
    IF "total_volume" \in DOMAIN wf_state.price_data
    THEN wf_state.price_data["total_volume"][1] ELSE 0

IndicatorsAre(trend, signal) ==
    /\ wf_state.technical_indicators.trend = trend
    /\ wf_state.technical_indicators.signal = signal

\* C1: for every change v the technical-analysis node is fed (an absent
\* field counting as 0): v > 5 gives Strong Uptrend / BUY, 0 < v <= 5 gives
\* Uptrend / HOLD, -5 < v <= 0 gives Downtrend / HOLD and v <= -5 gives
\* Strong Downtrend / SELL.
C1_SignalThresholds ==
    (/\ TechnicalAnalysisDone
     /\ FieldUsable("price_change_percentage_24h")
     /\ FieldUsable("total_volume"))
    => LET v == ChangeFed
       IN  /\ v > Percent(5) => IndicatorsAre("Strong Uptrend", "BUY")
           /\ (Percent(0) < v /\ v <= Percent(5)) => IndicatorsAre("Uptrend", "HOLD")
           /\ (Percent(-5) < v /\ v <= Percent(0)) => IndicatorsAre("Downtrend", "HOLD")
           /\ v <= Percent(-5) => IndicatorsAre("Strong Downtrend", "SELL")

\* C1 witness: the node has run on a change of exactly 5 % and said HOLD.
C1_Witness ==
    /\ TechnicalAnalysisDone
    /\ Get(wf_state.price_data, "price_change_percentage_24h", PyNone) = Number(Percent(5))
    /\ Get(wf_state.price_data, "total_volume", PyNone) # PyNone
    /\ IndicatorsAre("Uptrend", "HOLD")

\* C2: volume_status is "High" exactly when total_volume > 1,000,000,000
\* and "Normal" otherwise (a volume of exactly 1e9, or an absent one, is
\* "Normal"), whatever the price change is.
C2_VolumeStatus ==
    (/\ TechnicalAnalysisDone
     /\ FieldUsable("price_change_percentage_24h")
     /\ FieldUsable("total_volume"))
    => /\ wf_state.technical_indicators.volume_status \in {"High", "Normal"}
       /\ wf_state.technical_indicators.volume_status = "High"
             <=> VolumeFed > USD(1000000000)

\* C2 witness: the node has run on a volume of exactly 1e9 USD and said Normal.
C2_Witness ==
    /\ TechnicalAnalysisDone
    /\ FieldUsable("price_change_percentage_24h")
    /\ Get(wf_state.price_data, "total_volume", PyNone) = Number(USD(1000000000))
    /\ wf_state.technical_indicators.volume_status = "Normal"

\* ---------------------------------------------------------- ReAct claims
\* The text after the first occurrence of tok in text.
TextAfterFirst(text, tok) == SubSeq(text, IndexOf(text, tok) + 1, Len(text))

\* run() has been entered and has not been followed by reset().
InRun == status \in {"ITERATING", "TERMINAL_ANSWER", "EXHAUSTED", "RAISED"}

\* The last pass of the loop got an answer that is not final: the last step
\* of history was made from `response`.
LastStepMade ==
    /\ status \in {"ITERATING", "EXHAUSTED", "RAISED"}
    /\ response # None
    /\ history # <<>>

LastStep == history[Len(history)]

\* The lines of a response, as _parse_action sees them.
LinesOf(text) == PySplit(PyStrip(text), NL)

\* C3: when a response contains "Final Answer:", run returns, trimmed, all
\* the text after the FIRST occurrence of the marker.
C3_ReturnsAllAfterFirstMarker ==
    status = "TERMINAL_ANSWER"
    => result = Some(PyStrip(TextAfterFirst(response[1], FinalMarker)))

\* C4: the pass that detects "Final Answer:" appends no step and dispatches
\* no tool, whatever else the response holds; history then has one step per
\* earlier LLM call, and the LLM is not called again in that run.
C4_FinalPassAppendsNothing ==
    [][ /\ (/\ llm_calls' = llm_calls + 1
            /\ status' # "RAISED"
            /\ Contains(response'[1], FinalMarker))
           => /\ history' = history
              /\ tool_dispatches' = tool_dispatches
              /\ status' = "TERMINAL_ANSWER"
              /\ Len(history') = llm_calls' - 1
        /\ status = "TERMINAL_ANSWER"
           => \/ llm_calls' = llm_calls
              \/ status' = "ITERATING" /\ llm_calls' = 0 ]_vars

\* C4 witness: the second LLM call returned a final answer next to Action
\* and Action Input lines, and history holds the one earlier step.
C4_Witness ==
    /\ status = "TERMINAL_ANSWER"
    /\ llm_calls = 2
    /\ Len(history) = 1
    /\ tool_dispatches = 0
    /\ Contains(response[1], ActionMarker)
    /\ Contains(response[1], ActionInputMarker)

\* C5: with a budget >= 0 and no "Final Answer:" in any response, run ends
\* by returning "Max iterations reached." after exactly max_iterations LLM
\* calls: every call is a pass of the loop, the loop can always go on or
\* return, and it raises nothing.
C5_ExhaustionAfterBudget ==
    max_iterations >= 0
    => /\ status = "ITERATING"
          => /\ llm_calls = iteration
             /\ llm_calls <= max_iterations
             /\ ENABLED (RunReturnMax \/
                   \E resp \in Responses, outcome \in ToolOutcomes :
                      RunIteration(resp, outcome))
       /\ status = "EXHAUSTED"
          => /\ result = Some(<<"Max iterations reached.">>)
             /\ llm_calls = max_iterations
       /\ status = "TERMINAL_ANSWER" => Contains(response[1], FinalMarker)

\* C5 witness: a budget of 2 spent on two responses whose Action Input was
\* not JSON.
C5_Witness ==
    /\ status = "EXHAUSTED"
    /\ max_iterations = 2
    /\ llm_calls = 2
    /\ \A i \in 1..2 : history[i].action_input = QueryWrap(<<"btc">>)

\* C6: a step whose action names no registered tool has an observation
\* containing "not found", whatever the action input is.  Stated here for
\* the steps whose response carried an Action Input line (an empty mapping,
\* a non-empty one, a list, or text that is not JSON); the claim also covers
\* a response without that line.
C6_UnknownActionNotFound ==
    \A i \in 1..Len(history) :
        (/\ history[i].action # None
         /\ ~IsRegistered(history[i].action[1])
         /\ history[i].action_input # NoneValue)
        => /\ history[i].observation # None
           /\ Contains(history[i].observation[1], "not found")

\* C7 as stated: the length of history never exceeds max_iterations.
C7_Original == Len(history) <= max_iterations

\* C7 amended: the length of history never exceeds max_iterations when the
\* budget is >= 0, and history stays empty when it is negative.
C7_HistoryWithinBudget ==
    Len(history) <= (IF max_iterations >= 0 THEN max_iterations ELSE 0)

\* C7 witness: a run has filled history up to a positive budget.
C7_Witness ==
    /\ max_iterations > 0
    /\ Len(history) = max_iterations
    /\ status = "EXHAUSTED"

\* C8: history is cleared when run is entered and by reset, and only grows
\* by appending in between; the first prompt of a run holds no step, and
\* history holds exactly the steps the current run made, in order.
C8_HistoryPerRun ==
    /\ [](InRun => history = run_steps)
    /\ [](llm_calls = 1 => prompt[1].history = <<>>)
    /\ [][ /\ (status' = "ITERATING" /\ status # "ITERATING") => history' = <<>>
           /\ status' = "IDLE" => history' = <<>>
           /\ (status = "ITERATING" /\ status' # "IDLE")
              => /\ Len(history') \in {Len(history), Len(history) + 1}
                 /\ SubSeq(history', 1, Len(history)) = history ]_vars

\* C8 witness: a run entered while history held steps of an earlier run (no
\* reset in between) has made its own first step and built its second prompt.
C8_Witness ==
    /\ stale
    /\ status = "ITERATING"
    /\ llm_calls = 1
    /\ Len(history) = 1
    /\ prompt[1].history = <<>>

\* C9: when the tool of a dispatched action raises (in its body, or because
\* the arguments do not bind), the step appended has the observation
\* "Error executing <action>: <message>" and the loop goes on: run has not
\* raised and can make its next pass or return.
C9_ToolErrorBecomesObservation ==
    (InRun /\ tool_event.kind = "raised")
    => /\ status \in {"ITERATING", "EXHAUSTED"}
       /\ history # <<>>
       /\ iteration = Len(history)
       /\ LastStep.observation =
             Some(<<"Error executing ">> \o LastStep.action[1] \o <<": ">>
                  \o tool_event.message)
       /\ status = "ITERATING"
          => ENABLED (RunReturnMax \/
                \E resp \in Responses, outcome \in ToolOutcomes :
                   RunIteration(resp, outcome))

\* C9 witness: the tool body raised in the first pass, the loop went on, and
\* the arguments did not bind in the second.
C9_Witness ==
    /\ Len(history) = 2
    /\ history[1].observation = Some(<<"Error executing ", "search", ": ", "boom">>)
    /\ tool_event = [kind |-> "raised", message |-> <<"TypeError">>]
    /\ status = "ITERATING"

\* The Action Input line that decides the input: the last one.
InputLines(text) ==
    SelectSeq(LinesOf(text), LAMBDA line : StartsWith(line, ActionInputMarker))

\* C10: a response with no "Final Answer:" and no "Action:" line gives a
\* step with action None, observation None and no tool call; an Action Input
\* line whose text is not JSON gives the input {"query": <that text,
\* trimmed>}; run goes on in both cases.
C10_MalformedTextDegrades ==
    LastStepMade
    => LET lines == LinesOf(response[1])
           inputs == InputLines(response[1])
           text == PyStrip(TextAfterFirst(inputs[Len(inputs)], ActionInputMarker))
       IN  /\ (\A i \in 1..Len(lines) : ~StartsWith(lines[i], ActionMarker))
              => /\ LastStep.action = None
                 /\ LastStep.observation = None
                 /\ tool_event.kind = "none"
           /\ (inputs # <<>> /\ ~JsonLoads(text).ok)
              => LastStep.action_input = QueryWrap(text)
           /\ iteration = Len(history)

\* C11: when the LLM call raises in the k-th pass of run, the failure leaves
\* run at once: the LLM has been invoked exactly k times, the failing pass
\* dispatched no tool and returned nothing, history holds exactly the k-1
\* steps made before it, and the run makes no further pass.
C11_LlmFailurePropagates ==
    status = "RAISED"
    => /\ llm_calls = iteration + 1
       /\ Len(history) = llm_calls - 1
       /\ history = run_steps
       /\ tool_dispatches <= llm_calls - 1
       /\ tool_event = NoToolEvent
       /\ result = None
       /\ ~ENABLED RunLlmRaises
       /\ ~ENABLED RunReturnMax
       /\ ~ENABLED (\E resp \in Responses, outcome \in ToolOutcomes :
                       RunIteration(resp, outcome))

\* C11 witness: the LLM call raised in the second pass, after a first pass
\* that dispatched a tool and appended its step.
C11_Witness ==
    /\ status = "RAISED"
    /\ llm_calls = 2
    /\ Len(history) = 1
    /\ tool_dispatches = 1
    /\ history[1].observation # None

\* ------------------------------------------------------- workflow claims
\* run() is inside its sequence of nodes, or between the last node and its
\* return statement.
Running == wf_stage \in {Stages[i] : i \in 1..Len(Stages)} \cup {END}

\* Some node, or the return of run(), can be executed next.
CanGoOn ==
    ENABLED (\/ CollectData
             \/ TechnicalAnalysis
             \/ \E outcome \in NewsOutcomes : SentimentAnalysis(outcome)
             \/ \E outcome \in DecisionOutcomes : GenerateDecision(outcome)
             \/ \E raises \in BOOLEAN : Notification(raises)
             \/ GraphReturn)

\* C12: every run executes collect_data, technical_analysis,
\* sentiment_analysis, generate_decision, notification once each in that
\* order and then returns, whichever collaborators raise, on the compiled
\* graph and on the sequential fallback: the nodes executed so far are
\* always the first ones of that list, the next one is the one that follows
\* in it, all five have run when run() reaches its return, and the run can
\* always make its next step.
C12_FiveStagesInOrder ==
    /\ Len(wf_trace) <= 5
    /\ \A i \in 1..Len(wf_trace) :
          wf_trace[i] = <<"collect_data", "technical_analysis", "sentiment_analysis",
                          "generate_decision", "notification">>[i]
    /\ Running => /\ CanGoOn
                  /\ Len(wf_trace) < 5 =>
                        wf_stage = <<"collect_data", "technical_analysis",
                                     "sentiment_analysis", "generate_decision",
                                     "notification">>[Len(wf_trace) + 1]
                  /\ Len(wf_trace) = 5 => wf_stage = END
    /\ wf_stage \in {END, "returned"} => Len(wf_trace) = 5
    /\ wf_stage = "returned" => wf_result # None
    /\ wf_raised \subseteq {wf_trace[i] : i \in 1..Len(wf_trace)}

\* C12 witness: a run on the sequential fallback has returned after the
\* price tool, the news tool, the LLM and the notification tool all raised.
C12_Witness ==
    /\ wf_stage = "returned"
    /\ wf_graph = "none"
    /\ wf_raised = {"collect_data", "sentiment_analysis", "generate_decision",
                    "notification"}
    /\ Len(wf_trace) = 5

\* C13: if the price tool raises in the collect stage, run still returns an
\* AnalysisResult whose data.price_data is the empty mapping and whose
\* recommendation is not null: it is the default, HOLD.
C13_PriceFailureStillReturns ==
    "collect_data" \in wf_raised
    => /\ wf_state.price_data = EmptyDict
       /\ Running => CanGoOn
       /\ wf_stage = "returned"
          => /\ wf_result # None
             /\ wf_result[1].data.price_data = EmptyDict
             /\ wf_result[1].recommendation = "HOLD"

\* C13 witness: run("BTC") has returned after the price tool raised.
C13_Witness ==
    /\ wf_stage = "returned"
    /\ wf_symbol = "BTC"
    /\ "collect_data" \in wf_raised
    /\ wf_result[1].recommendation = "HOLD"

\* The output field of a node whose try block raised is the empty mapping;
\* the decision field holds text, and the notification node has no field.
DegradedToEmptyMapping(node) ==
    CASE node = "collect_data" -> wf_state.price_data = EmptyDict
      [] node = "technical_analysis" -> wf_state.technical_indicators = EmptyDict
      [] node = "sentiment_analysis" -> wf_state.sentiment_data = EmptyDict
      [] node = "generate_decision" -> wf_state.decision \notin STRING
      [] node = "notification" -> TRUE

\* The pipeline is not aborted: the run goes on to its next node and, once
\* it has returned, all five nodes have run and there is an AnalysisResult.
NotAborted ==
    /\ wf_stage \in {"unbuilt", "idle", "returned"} \/ Running
    /\ Running => CanGoOn
    /\ wf_stage = "returned" => Len(wf_trace) = 5 /\ wf_result # None

\* C14 as stated: whichever node's collaborator raises, the node's output
\* field is degraded to an empty mapping and the pipeline is not aborted.
C14_Original ==
    /\ \A node \in wf_raised : DegradedToEmptyMapping(node)
    /\ NotAborted

\* C14 amended: when a node's collaborator raises, the pipeline is not
\* aborted and the node's output field is degraded: price_data,
\* technical_indicators and sentiment_data to the empty mapping, decision to
\* the text "Error generating decision"; the notification node has no
\* output field.
C14_StageFailuresSwallowed ==
    /\ \A node \in wf_raised :
          IF node = "generate_decision"
          THEN wf_state.decision = "Error generating decision"
          ELSE DegradedToEmptyMapping(node)
    /\ NotAborted

\* C14 witness: a run has returned after the indicator computation (on a
\* volume of None), the news tool, the LLM and the notification tool raised.
C14_Witness ==
    /\ wf_stage = "returned"
    /\ wf_raised = {"technical_analysis", "sentiment_analysis",
                    "generate_decision", "notification"}
    /\ IsNumber(Get(wf_state.price_data, "price_change_percentage_24h", PyNone))
    /\ Get(wf_state.price_data, "total_volume", Number(0)) = PyNone
    /\ wf_state.technical_indicators = EmptyDict
    /\ wf_result # None

\* The stages run() is in after the decision node has been left normally.
AfterDecision == {"notification", END, "returned"}

\* C15 as stated: a failure of the LLM call in the decision stage leaves
\* run() and aborts the run (no later stage, no result), while a failure of
\* the price, news or notification tool does not.
C15_Original ==
    /\ "generate_decision" \in wf_raised => wf_stage \notin AfterDecision
    /\ (wf_raised # {} /\ "generate_decision" \notin wf_raised) => NotAborted

\* C15 amended: no failure is propagated to the caller of
\* CryptoAnalysisGraph.run.  A failure of the LLM call in the decision stage
\* is caught by the stage, which stores "Error generating decision"; the
\* notification stage still runs and run returns an AnalysisResult with
\* that text as its reasoning.  Failures of the price, news and
\* notification tools are caught by their stages as well.
C15_DecisionFailureIsSwallowed ==
    /\ "generate_decision" \in wf_raised
       => /\ wf_stage \in AfterDecision
          /\ wf_state.decision = "Error generating decision"
          /\ wf_stage = "returned"
             => wf_result[1].reasoning = "Error generating decision"
    /\ wf_raised # {} => NotAborted

\* C15 witness: the LLM call of the decision stage raised, and nothing else
\* did; the notification stage ran and run returned.
C15_Witness ==
    /\ wf_stage = "returned"
    /\ wf_raised = {"generate_decision"}
    /\ wf_trace[5] = "notification"
    /\ wf_result[1].reasoning = "Error generating decision"

\* The fields of the shared state, and the one each node may write.
Fields ==
    {"symbol", "action", "price_data", "technical_indicators", "sentiment_data",
     "analysis_result", "decision", "messages"}

OwnFields(node) ==
    CASE node = "collect_data" -> {"price_data"}
      [] node = "technical_analysis" -> {"technical_indicators"}
      [] node = "sentiment_analysis" -> {"sentiment_data"}
      [] node = "generate_decision" -> {"decision"}
      [] OTHER -> {}

\* C16: each stage changes only its own field of the shared state, on
\* success and on failure (collect price_data, technical analysis
\* technical_indicators, sentiment sentiment_data, decision decision, notify
\* nothing), and symbol, action, analysis_result and messages keep their
\* initial values for the whole run.
C16_StagesWriteOwnField ==
    /\ [](Running \/ wf_stage = "returned"
            => /\ DOMAIN wf_state = Fields
               /\ wf_state.symbol = wf_symbol
               /\ wf_state.action = "analyze"
               /\ wf_state.analysis_result = ""
               /\ wf_state.messages = <<>>)
    /\ [][ Running
             => /\ DOMAIN wf_state' = DOMAIN wf_state
                /\ \A f \in Fields \ OwnFields(wf_stage) :
                      wf_state'[f] = wf_state[f] ]_vars

\* C16 witness: a run has returned in which the collect, technical-analysis
\* and decision stages wrote their fields, and the news tool and the
\* notification tool raised.
C16_Witness ==
    /\ wf_stage = "returned"
    /\ wf_raised = {"sentiment_analysis", "notification"}
    /\ wf_state.price_data # EmptyDict
    /\ wf_state.technical_indicators # EmptyDict
    /\ wf_state.sentiment_data = EmptyDict
    /\ wf_state.decision = "I would sell."

\* C17: the AnalysisResult run returns has the symbol passed to run, the
\* confidence 0.75 whatever the LLM reports, as reasoning the text the
\* decision stage stored (the LLM's answer as it came when the call
\* returned), and as data the price_data, technical_indicators and
\* sentiment_data of the state after the fifth stage.
C17_ResultIsSnapshot ==
    wf_stage = "returned"
    => LET r == wf_result[1]
       IN  /\ r.symbol = wf_symbol
           /\ r.confidence = 75
           /\ r.reasoning = wf_state.decision
           /\ "generate_decision" \notin wf_raised
              => r.reasoning \in {o.text : o \in {d \in DecisionOutcomes : d.ok}}
           /\ r.data.price_data = wf_state.price_data
           /\ r.data.technical_indicators = wf_state.technical_indicators
           /\ r.data.sentiment_data = wf_state.sentiment_data
           /\ DOMAIN r.data = {"price_data", "technical_indicators", "sentiment_data"}

\* C17 witness: the LLM answered with JSON reporting a confidence of 85, and
\* the result for ETH carries that text as reasoning and the confidence 0.75.
C17_Witness ==
    /\ wf_stage = "returned"
    /\ wf_symbol = "ETH"
    /\ wf_result[1].reasoning = "{\"recommendation\": \"BUY\", \"confidence\": 85}"
    /\ wf_result[1].confidence = 75
    /\ wf_result[1].data.sentiment_data # EmptyDict

\* The sentiment node has run in the current workflow run.
SentimentDone == wf_stage \in {"generate_decision", "notification", END, "returned"}

\* C18: when the news tool returns, the sentiment stage stores exactly
\* news_count = the number of articles returned, overall_sentiment =
\* "Neutral" and news_headlines = the titles of the first min(3, count)
\* articles in their order; a missing title is the empty text, and a
\* missing articles list gives count 0 and no headline.
C18_SentimentReduction ==
    (SentimentDone /\ wf_news # None)
    => LET news == wf_news[1]
           articles == IF "articles" \in DOMAIN news THEN news.articles ELSE <<>>
           n == Len(articles)
           m == IF n < 3 THEN n ELSE 3
           sentiment == wf_state.sentiment_data
       IN  /\ DOMAIN sentiment = {"news_count", "overall_sentiment", "news_headlines"}
           /\ sentiment.news_count = n
           /\ sentiment.overall_sentiment = "Neutral"
           /\ Len(sentiment.news_headlines) = m
           /\ \A i \in 1..m :
                 sentiment.news_headlines[i] =
                    IF "title" \in DOMAIN articles[i] THEN articles[i].title ELSE <<>>

\* C18 witness: the news tool returned four articles, the second without a
\* title; the stage counted four and kept three headlines, the second empty.
C18_Witness ==
    /\ SentimentDone
    /\ wf_news # None
    /\ "articles" \in DOMAIN wf_news[1]
    /\ Len(wf_news[1].articles) = 4
    /\ wf_state.sentiment_data.news_count = 4
    /\ wf_state.sentiment_data.news_headlines =
          << <<"headline", 1>>, <<>>, <<"headline", 3>> >>

\* ------------------------------------------------------------ tool claims
\* The last direct call was one of the named tool, and what it did.
Called(tool) == tool_call # None /\ tool_call[1].tool = tool

\* The twelve keys of the live shape; all but symbol and name hold numbers.
LiveKeys == {"symbol", "name"} \cup UsdKeys \cup FlatKeys

\* C19: CryptoPriceTool.run never raises, for any symbol string and whatever
\* the upstream API does (success, HTTP error, timeout, malformed or partial
\* payload): it returns a mapping whose symbol is the uppercased input and
\* that has all twelve keys of the live shape, with numbers under the ten
\* numeric ones, and it is the mock payload when the upstream call fails.
C19_PriceToolNeverRaises ==
    Called("get_crypto_price")
    => /\ ~tool_return[1].raised
       /\ tool_return[1].value["symbol"] = Upper[tool_call[1].symbol]
       /\ LiveKeys \subseteq DOMAIN tool_return[1].value
       /\ \A k \in UsdKeys \cup FlatKeys : IsNumber(tool_return[1].value[k])
       /\ tool_call[1].upstream.kind # "json"
          => tool_return[1].value = MockPriceData(tool_call[1].symbol)

\* The largest of limit and 0.
AtLeastZero(limit) == IF limit > 0 THEN limit ELSE 0

\* What every call of CryptoNewsTool.run gives, whatever the limit: a
\* mapping with the three keys, the uppercased symbol, and a count equal to
\* the number of articles.
NewsShape ==
    /\ ~tool_return[1].raised
    /\ DOMAIN tool_return[1].value = {"symbol", "article_count", "articles"}
    /\ tool_return[1].value["symbol"] = Upper[tool_call[1].symbol]
    /\ tool_return[1].value["article_count"] = Len(tool_return[1].value["articles"])

\* C20 as stated: for every symbol and every limit the number of articles
\* is at most limit (exactly limit when limit >= 0, zero when it is
\* negative), article_count is that number and symbol is uppercased.
C20_Original ==
    Called("get_crypto_news")
    => LET limit == tool_call[1].limit
           count == Len(tool_return[1].value["articles"])
       IN  /\ NewsShape
           /\ count <= limit
           /\ limit >= 0 => count = limit
           /\ limit < 0 => count = 0

\* C20 amended: the number of articles is exactly max(limit, 0): exactly
\* limit, hence at most limit, when limit >= 0, and zero when limit is
\* negative; article_count is that number and symbol is uppercased.
C20_NewsToolCount ==
    Called("get_crypto_news")
    => LET limit == tool_call[1].limit
           count == Len(tool_return[1].value["articles"])
       IN  /\ NewsShape
           /\ count = AtLeastZero(limit)
           /\ limit >= 0 => count <= limit
           /\ limit < 0 => count = 0

\* C20 witness: run("btc", 6) returned six articles for BTC, one more than
\* there are title templates.
C20_Witness ==
    /\ Called("get_crypto_news")
    /\ tool_call[1].symbol = "btc"
    /\ tool_call[1].limit = 6
    /\ tool_return[1].value["symbol"] = "BTC"
    /\ tool_return[1].value["article_count"] = 6
    /\ tool_return[1].value["articles"][6].title = tool_return[1].value["articles"][1].title

\* ---------------------------------------------------- search tool claims
\* Whether the last call of the search tool gave the mock: without an API
\* key, and whenever the upstream call or the reading of its body failed.
SearchGaveMock ==
    \/ ~tool_env[1].tavily_api_key
    \/ tool_call[1].upstream.kind # "json"
    \/ SearchExtractionRaises(tool_call[1].upstream.data)

\* What every call of TavilySearchTool.run gives: a mapping with exactly the
\* keys query, answer and results, whose query is the input, and never an
\* exception.
SearchShape ==
    /\ ~tool_return[1].raised
    /\ DOMAIN tool_return[1].value = {"query", "answer", "results"}
    /\ tool_return[1].value.query = tool_call[1].query

Configured(channel) ==
    CASE channel = "slack" -> tool_env[1].slack_webhook
      [] channel = "discord" -> tool_env[1].discord_webhook
      [] OTHER -> TRUE

\* C23: a dispatch to slack or discord whose webhook is not configured
\* returns {success: False, channel: that channel, error: "Webhook not
\* configured"} without raising and without an HTTP request; and a failed
\* dispatch does not change a later one on another channel: the console
\* dispatch after it succeeds.
C23_UnconfiguredWebhook ==
    Called("send_notification") =>
        /\ (tool_call[1].channel \in {"slack", "discord"} /\ ~Configured(tool_call[1].channel)) =>
              /\ ~tool_return[1].raised
              /\ ~tool_return[1].posted
              /\ tool_return[1].value = [success |-> FALSE,
                                         channel |-> tool_call[1].channel,
                                         error |-> "Webhook not configured"]
        /\ (tool_prev # None /\ ~tool_prev[1].return.value.success
              /\ tool_call[1].channel = "console") =>
              /\ ~tool_return[1].raised
              /\ tool_return[1].value = [success |-> TRUE, channel |-> "console",
                                         message |-> tool_call[1].message]

\* A console dispatch right after a dispatch to the unconfigured Slack
\* webhook.
C23_Witness ==
    /\ Called("send_notification")
    /\ tool_prev # None
    /\ tool_prev[1].call.channel = "slack"
    /\ ~tool_env[1].slack_webhook
    /\ tool_prev[1].return.value = [success |-> FALSE, channel |-> "slack",
                                    error |-> "Webhook not configured"]
    /\ ~tool_prev[1].return.posted
    /\ tool_call[1].channel = "console"
    /\ tool_return[1].value.success

\* ------------------------------------------------------- interleaving claims
\* C24: each run owns its history exclusively: while two calls of
\* CryptoReActAgent.run on one instance are interleaved, the history a run
\* reads holds exactly the steps that run appended (no step of the other
\* run in it, none of its own cleared), so the prompt of each pass is the
\* one the run would build alone.
C24_RunsOwnTheirHistory ==
    \A t \in Threads :
        /\ threads[t].status = "ITERATING" => shared_history = threads[t].run_steps
        /\ (threads[t].status # "IDLE" /\ threads[t].prompt # None) =>
              \E n \in 0..Len(threads[t].run_steps) :
                 threads[t].prompt[1] =
                    BuildPrompt(threads[t].question, SubSeq(threads[t].run_steps, 1, n))

\* ------------------------------------------------------- component claims
\* C25: the provider is chosen at construction from {openai, anthropic,
\* gemini}: constructing either agent with one of the three names succeeds,
\* and a name outside the enumeration is rejected at construction.
C25_ProviderEnumeration ==
    Called("construct") =>
        IF tool_call[1].provider \in {"openai", "anthropic", "gemini"}
        THEN /\ ~tool_return[1].raised
             /\ "llm_client" \in DOMAIN tool_return[1].value
        ELSE tool_return[1].raised

\* A field of the price data as the node finds it: absent, or its value.
FieldOf(price_data, key) ==
    IF key \in DOMAIN price_data THEN Some(price_data[key]) ELSE None

\* C26: deriving the indicators twice from price data with the same
\* price_change_percentage_24h and the same total_volume gives the same
\* trend, signal and volume_status, whatever the current price and the
\* other fields are and whatever the node was called on before.
C26_IndicatorsArePure ==
    (Called("technical_analysis") /\ tool_prev # None) =>
        LET before == tool_prev[1].call.price_data
            now == tool_call[1].price_data
        IN  ( /\ FieldOf(before, "price_change_percentage_24h")
                    = FieldOf(now, "price_change_percentage_24h")
              /\ FieldOf(before, "total_volume") = FieldOf(now, "total_volume") )
            => tool_return[1].value = tool_prev[1].return.value

\* Two derivations in a row from data that differ in the current price
\* only: both give the same three indicators.
C26_Witness ==
    /\ Called("technical_analysis")
    /\ tool_prev # None
    /\ DOMAIN tool_call[1].price_data =
          {"symbol", "current_price", "price_change_percentage_24h", "total_volume"}
    /\ tool_call[1].price_data["current_price"] = Number(1)
    /\ tool_prev[1].call.price_data = WithPrice(tool_call[1].price_data, 50000)
    /\ tool_call[1].price_data["price_change_percentage_24h"] = Number(StrongUpChange + 1)
    /\ tool_return[1].value = [trend |-> "Strong Uptrend", signal |-> "BUY",
                               volume_status |-> "High"]
    /\ tool_prev[1].return.value = tool_return[1].value

\* ------------------------------------------------------- dispatch claims
\* The lines of a response that start with the marker.
MarkedLines(text, marker) ==
    SelectSeq(LinesOf(text), LAMBDA line : StartsWith(line, marker))

\* C27: in a pass that is not final, whenever the response has an "Action:"
\* line naming a registered tool and an "Action Input:" line, the loop
\* dispatches to that tool and records its observation, for every decoded
\* input value, the empty mapping and the other false JSON values included.
C27_ActionWithInputDispatches ==
    (/\ LastStepMade
     /\ MarkedLines(response[1], ActionMarker) # <<>>
     /\ MarkedLines(response[1], ActionInputMarker) # <<>>
     /\ LastStep.action # None
     /\ IsRegistered(LastStep.action[1]))
    => /\ LastStep.observation # None
       /\ \E outcome \in ToolOutcomes :
             LastStep.observation =
                Some(ExecuteTool(LastStep.action[1], LastStep.action_input, outcome))

\* The last pass made a step from a response whose Action Input text is not
\* JSON, and run() has not been left by an exception since.
WrappedInputStep ==
    /\ status \in {"ITERATING", "EXHAUSTED"}
    /\ response # None
    /\ history # <<>>
    /\ LastStep.action # None
    /\ InputLines(response[1]) # <<>>
    /\ LET inputs == InputLines(response[1])
       IN  ~JsonLoads(PyStrip(TextAfterFirst(inputs[Len(inputs)], ActionInputMarker))).ok

\* C30: an Action Input that is not JSON, wrapped as {"query": text} and
\* dispatched to get_crypto_price or get_crypto_news, never returns tool
\* data: the tool's run() is not entered, the observation is "Error
\* executing <action>: ..." and the loop goes on; only the search tool, which
\* accepts query, is entered with a wrapped input.
C30_WrappedInputFailsOnSymbolTools ==
    WrappedInputStep =>
        /\ LastStep.action_input.type = "dict"
        /\ Keys(LastStep.action_input) = {"query"}
        /\ LastStep.action[1] \in {<<"get_crypto_price">>, <<"get_crypto_news">>} =>
              /\ tool_event = [kind |-> "raised", message |-> <<"TypeError">>]
              /\ LastStep.observation =
                    Some(<<"Error executing ">> \o LastStep.action[1] \o <<": ", "TypeError">>)
              /\ iteration = Len(history)
        /\ tool_event.kind = "returned" =>
              /\ LastStep.action[1] = <<"search">>
              /\ LastStep.observation = Some(<<"tool result">>)
        /\ LastStep.action[1] = <<"search">> =>
              \E outcome \in ToolOutcomes :
                 /\ tool_event = ToolEvent(LastStep.action[1], LastStep.action_input, outcome)
                 /\ LastStep.observation =
                       Some(IF outcome.ok THEN outcome.text
                            ELSE ExecutionError(LastStep.action[1], outcome.text))

\* The news tool was given the wrapped text "btc" in the first pass and the
\* loop stands before its second pass.
C30_Witness ==
    /\ WrappedInputStep
    /\ status = "ITERATING"
    /\ Len(history) = 1
    /\ LastStep.action = Some(<<"get_crypto_news">>)
    /\ LastStep.action_input = QueryWrap(<<"btc">>)
    /\ LastStep.observation =
          Some(<<"Error executing ", "get_crypto_news", ": ", "TypeError">>)

\* ------------------------------------------------- recommendation claims
\* The recommendation the price data alone determine: the signal of the 24h
\* change when the change and the volume are numbers or absent, and HOLD
\* when the indicators could not be derived.
RecommendationOf(price_data) ==
    LET change == Get(price_data, "price_change_percentage_24h", Number(0))
        volume == Get(price_data, "total_volume", Number(0))
    IN  IF IsNumber(change) /\ IsNumber(volume) THEN Signal(change[1]) ELSE "HOLD"

\* C28: the recommendation of a returned AnalysisResult is the technical
\* signal when the indicator stage produced one and "HOLD" otherwise; it is
\* one of BUY, HOLD, SELL; and it is determined by the price data alone, so
\* runs with the same price data whose LLM answers differ, or whose LLM
\* fails, return the same recommendation.
C28_RecommendationIgnoresLlm ==
    wf_stage = "returned"
    => LET r == wf_result[1]
       IN  /\ r.recommendation \in {"BUY", "HOLD", "SELL"}
           /\ r.recommendation =
                 IF "signal" \in DOMAIN r.data.technical_indicators
                 THEN r.data.technical_indicators.signal ELSE "HOLD"
           /\ r.recommendation = RecommendationOf(r.data.price_data)

\* A run whose LLM answered "I would sell." has returned BUY, the signal of
\* a change of 6 %.
C28_Witness ==
    /\ wf_stage = "returned"
    /\ wf_result[1].reasoning = "I would sell."
    /\ Get(wf_result[1].data.price_data, "price_change_percentage_24h", PyNone)
          = Number(Percent(6))
    /\ wf_result[1].recommendation = "BUY"

\* The price stage of the current run stored the mock payload of
\* CryptoPriceTool.
MockCollected ==
    /\ wf_stage \in {"technical_analysis", "sentiment_analysis", "generate_decision",
                     "notification", END, "returned"}
    /\ "_note" \in DOMAIN wf_state.price_data

\* C29: when the upstream price API is unavailable and CryptoPriceTool
\* substitutes its mock (24h change 1.2 %, volume 50,000,000,000), the run,
\* for any symbol, stores the mock of that symbol as price_data, derives the
\* indicators Uptrend / HOLD / High and returns the recommendation "HOLD".
C29_MockRun ==
    MockCollected
    => /\ wf_state.price_data = MockPriceData(wf_symbol)
       /\ wf_state.price_data["price_change_percentage_24h"] = Number(12)
       /\ wf_state.price_data["total_volume"] = Number(50 * USD(1000000000))
       /\ TechnicalAnalysisDone
          => wf_state.technical_indicators =
                [trend |-> "Uptrend", signal |-> "HOLD", volume_status |-> "High"]
       /\ wf_stage = "returned"
          => /\ wf_result[1].recommendation = "HOLD"
             /\ wf_result[1].data.price_data = MockPriceData(wf_symbol)
             /\ wf_result[1].data.technical_indicators =
                   [trend |-> "Uptrend", signal |-> "HOLD", volume_status |-> "High"]

\* A run for ETH on the mock payload has returned.
C29_Witness ==
    /\ MockCollected
    /\ wf_stage = "returned"
    /\ wf_symbol = "ETH"
    /\ wf_result[1].data.price_data["symbol"] = "ETH"
    /\ wf_result[1].data.price_data["current_price"] = Number(300000)
    /\ wf_result[1].recommendation = "HOLD"

====
